---------------------------- MODULE Spec2Model ----------------------------
(***************************************************************************)
(* Beanfield-Trace: the pair-orientation engine of src/app/fiber_action.py *)
(* (_parse_json_for_order, _find_common_box, _normalize_desc,              *)
(* compute_fibre_actions), the trace builder of src/app/fiber_trace.py     *)
(* (_decode, _compact, _split, _parse_section, _group_splices,             *)
(* build_fiber_trace, insert_actions, build_trace_and_actions_from_        *)
(* sources), _normalize_tokens and _parse_segments_with_context of         *)
(* src/app/clean_json.py and clean_text of src/app/parse_device_sheet.py.  *)
(*                                                                         *)
(* Python dicts are functions whose DOMAIN is the key set, Python sets are *)
(* sets, None is the string "None".  Tokens (PMIDs, box ids, labels) are   *)
(* strings; Spell gives their characters where the code looks inside them  *)
(* (regular expressions, lower(), sorted()).                               *)
(***************************************************************************)
EXTENDS Integers, Sequences, FiniteSets, TLC

VARIABLES
    pc,               \* which call is running / has returned
    ca_order_by_box,  \* _parse_json_for_order: { box -> { pmid -> rank } }
    boxes_by_pmid,    \* _parse_json_for_order: { pmid -> set(box) }
    pair_orient,      \* _parse_json_for_order: { frozenset({A,B}) -> (A,B) }
    current_box,      \* _parse_json_for_order: local, box of the running block
    order_map,        \* _parse_json_for_order: local, CA order of the running block
    nlines,           \* lines of the document consumed so far
    first_orient,     \* history: first "PMID a -- Splice -- PMID b" line per pair
    ca_seen,          \* history: distinct CA PMIDs of the running block, as met
    action,           \* _normalize_desc: argument `action` (the label)
    desc,             \* _normalize_desc: argument `desc`, as the regexes read it
    box,              \* _normalize_desc: local, what _find_common_box returned
    out,              \* _normalize_desc: the returned description
    csv,              \* compute_fibre_actions: the uploaded action table
    result,           \* compute_fibre_actions / build_trace_...: outcome of the call
    payload,          \* build_fiber_trace: the sections of the document
    nsec,             \* build_fiber_trace: sections processed so far
    order,            \* build_fiber_trace: `order` and `agg_map`, the location blocks
    arg,              \* a helper called on its own: the argument
    ret,              \* a helper called on its own: what the call gave
    platform,         \* launcher: sys.platform
    frozen,           \* launcher: sys._MEIPASS is set (PyInstaller bundle)
    lock_taken,       \* launcher: another instance listens on LOCK_PORT
    lock_socket,      \* launcher.main: local lock_socket
    proc,             \* launcher.main: local proc, the app path Popen was given
    child,            \* launcher: the Streamlit process this launcher started
    server,           \* launcher: who answers on STREAMLIT_PORT
    polls,            \* wait_for_server: polls that found the port closed
    exit              \* launcher.main: how the call ends

vars == <<pc, ca_order_by_box, boxes_by_pmid, pair_orient, current_box, order_map,
          nlines, first_orient, ca_seen, action, desc, box, out, csv, result,
          payload, nsec, order, arg, ret, platform, frozen, lock_taken, lock_socket,
          proc, child, server, polls, exit>>

parseVars == <<ca_order_by_box, boxes_by_pmid, pair_orient, current_box, order_map,
               nlines, first_orient, ca_seen>>

normVars == <<action, desc, box, out>>

traceVars == <<payload, nsec, order>>

callVars == <<arg, ret>>

launchVars == <<platform, frozen, lock_taken, lock_socket, proc, child, server, polls,
                exit>>

None == "None"

\* the launcher is not part of the run
LauncherIdle ==
    /\ platform = "linux"
    /\ frozen = FALSE
    /\ lock_taken = FALSE
    /\ lock_socket = None
    /\ proc = None
    /\ child = "none"
    /\ server = "none"
    /\ polls = 0
    /\ exit = None

\* Longest document (in lines) that is parsed.
MaxLines == 6

\* PMIDs met on CA lines, splice lines and in action descriptions.
PMIDs == {"41121", "41122", "41123"}

\* PMIDs met on "PMID: a -- Splice -- PMID: b" lines.
SplicePMIDs == {"41121", "41122"}

\* Box ids met in box headers and in location tails.
Boxes == {"M#10", "M#9", "SB7"}

\* Action labels of the work-order table.
Labels == {"1: Add", "2: Remove (E)", "3: BREAK"}

EmptyDict == <<>>

(***************************************************************************)
(* Characters.                                                             *)
(***************************************************************************)
Digits == <<"0", "1", "2", "3", "4", "5", "6", "7", "8", "9">>

UpperCase == <<"A", "B", "C", "D", "E", "F", "G", "H", "I", "J", "K", "L", "M",
               "N", "O", "P", "Q", "R", "S", "T", "U", "V", "W", "X", "Y", "Z">>

LowerCase == <<"a", "b", "c", "d", "e", "f", "g", "h", "i", "j", "k", "l", "m",
               "n", "o", "p", "q", "r", "s", "t", "u", "v", "w", "x", "y", "z">>

\* The characters of the model's tokens in code-point order (str comparison).
CodePointOrder == <<" ", "#", "(", ")">> \o Digits \o <<":">> \o UpperCase \o LowerCase

Range(f) == {f[i] : i \in DOMAIN f}

IsDigit(c) == c \in Range(Digits)

IsLetter(c) == c \in Range(UpperCase) \cup Range(LowerCase)

Ord(c) == CHOOSE i \in DOMAIN CodePointOrder : CodePointOrder[i] = c

\* str.lower() on one character
LowerChar(c) ==
    IF c \in Range(UpperCase)
    THEN LowerCase[CHOOSE i \in DOMAIN UpperCase : UpperCase[i] = c]
    ELSE c

\* str.lower()
Lower(cs) == [i \in DOMAIN cs |-> LowerChar(cs[i])]

\* `sub in s` on character sequences
Contains(sub, cs) ==
    \E k \in 0..(Len(cs) - Len(sub)) :
        \A i \in 1..Len(sub) : cs[k + i] = sub[i]

\* s < t for Python strings (code-point lexicographic order)
RECURSIVE StrLess(_, _)
StrLess(s, t) ==
    IF t = <<>> THEN FALSE
    ELSE IF s = <<>> THEN TRUE
    ELSE IF Head(s) # Head(t) THEN Ord(Head(s)) < Ord(Head(t))
    ELSE StrLess(Tail(s), Tail(t))

\* The characters of every token of the model.
Spell ==
    [t \in {"M#10"} |-> <<"M", "#", "1", "0">>] @@
    [t \in {"M#9"} |-> <<"M", "#", "9">>] @@
    [t \in {"SB7"} |-> <<"S", "B", "7">>] @@
    [t \in {"Box"} |-> <<"B", "o", "x">>] @@
    [t \in {"400D5"} |-> <<"4", "0", "0", "D", "5">>] @@
    [t \in {"73"} |-> <<"7", "3">>] @@
    [t \in {"84"} |-> <<"8", "4">>] @@
    [t \in {"70"} |-> <<"7", "0">>] @@
    [t \in {"81"} |-> <<"8", "1">>] @@
    [t \in {"1: Add"} |-> <<"1", ":", " ", "A", "d", "d">>] @@
    [t \in {"2: Remove (E)"} |->
        <<"2", ":", " ", "R", "e", "m", "o", "v", "e", " ", "(", "E", ")">>] @@
    [t \in {"3: BREAK"} |-> <<"3", ":", " ", "B", "R", "E", "A", "K">>]

(***************************************************************************)
(* _parse_json_for_order: one action per line of a Connections blob.       *)
(***************************************************************************)
\* the commit without `current_box not in ca_order_by_box`
CommitOverwrite(byBox, cur, om) ==
    IF cur # None /\ DOMAIN om # {}
    THEN [b \in DOMAIN byBox \cup {cur} |-> IF b = cur THEN om ELSE byBox[b]]
    ELSE byBox

\* lines 147-148 and 164-165: commit the running block unless the box is known
Commit(byBox, cur, om) ==
    IF cur # None /\ DOMAIN om # {} /\ cur \notin DOMAIN byBox
    THEN byBox @@ (cur :> om)
    ELSE byBox

\* dict.setdefault(key, default) as a statement
SetDefault(d, key, default) ==
    IF key \in DOMAIN d THEN d ELSE d @@ (key :> default)

\* lines 162-163: record the orientation of a splice line
RecordOrient(po, a, b) ==
    [SetDefault(po, {a, b}, None) EXCEPT ![{a, b}] = <<a, b>>]

\* the rank counted from 1, as the CA labels are
NextRankFromOne(om) == Cardinality(DOMAIN om) + 1

\* line 156: the rank of a PMID new to the running block, len(order_map)
NextRank(om) == Cardinality(DOMAIN om)

\* line matches BOX_HEADER_RE with group(1) = box
ParseBoxHeader(hdr) ==
    /\ pc = "parsing"
    /\ nlines < MaxLines
    /\ ca_order_by_box' = Commit(ca_order_by_box, current_box, order_map)
    /\ current_box' = hdr
    /\ order_map' = EmptyDict
    /\ ca_seen' = <<>>
    /\ nlines' = nlines + 1
    /\ UNCHANGED <<launchVars, pc, boxes_by_pmid, pair_orient, first_orient, normVars, csv, result, traceVars, callVars>>

\* line matches CA_PMD_RE with group(1) = pmid
ParseCALine(pmid) ==
    /\ pc = "parsing"
    /\ nlines < MaxLines
    /\ nlines' = nlines + 1
    /\ IF current_box # None
       THEN /\ IF pmid \notin DOMAIN order_map
               THEN /\ order_map' = order_map @@ (pmid :> NextRank(order_map))
                    /\ boxes_by_pmid' =
                           [SetDefault(boxes_by_pmid, pmid, {}) EXCEPT
                               ![pmid] = @ \cup {current_box}]
               ELSE UNCHANGED <<order_map, boxes_by_pmid>>
            /\ ca_seen' = IF pmid \in Range(ca_seen) THEN ca_seen
                          ELSE Append(ca_seen, pmid)
       ELSE \* falls through to PAIR_ORIENT_RE, which a CA line never matches
            UNCHANGED <<order_map, boxes_by_pmid, ca_seen>>
    /\ UNCHANGED <<launchVars, pc, ca_order_by_box, pair_orient, current_box, first_orient,
                   normVars, csv, result, traceVars, callVars>>

\* line matches PAIR_ORIENT_RE with groups (a, b)
ParsePairLine(a, b) ==
    /\ pc = "parsing"
    /\ nlines < MaxLines
    /\ nlines' = nlines + 1
    /\ pair_orient' = RecordOrient(pair_orient, a, b)
    /\ first_orient' = SetDefault(first_orient, {a, b}, <<a, b>>)
    /\ UNCHANGED <<launchVars, pc, ca_order_by_box, boxes_by_pmid, current_box, order_map,
                   ca_seen, normVars, csv, result, traceVars, callVars>>

\* line matches none of the three patterns
ParseOtherLine ==
    /\ pc = "parsing"
    /\ nlines < MaxLines
    /\ nlines' = nlines + 1
    /\ UNCHANGED <<launchVars, pc, ca_order_by_box, boxes_by_pmid, pair_orient, current_box,
                   order_map, first_orient, ca_seen, normVars, csv, result, traceVars, callVars>>

\* end of a blob: flush the last block, the next blob starts with fresh locals
EndBlob ==
    /\ pc = "parsing"
    /\ ca_order_by_box' = Commit(ca_order_by_box, current_box, order_map)
    /\ current_box' = None
    /\ order_map' = EmptyDict
    /\ ca_seen' = <<>>
    /\ UNCHANGED <<launchVars, pc, boxes_by_pmid, pair_orient, nlines, first_orient,
                   normVars, csv, result, traceVars, callVars>>

\* end of the last blob: flush and return the three maps
EndParse ==
    /\ pc = "parsing"
    /\ ca_order_by_box' = Commit(ca_order_by_box, current_box, order_map)
    /\ current_box' = None
    /\ order_map' = EmptyDict
    /\ ca_seen' = <<>>
    /\ nlines' = 0
    /\ pc' = "indexed"
    /\ UNCHANGED <<launchVars, boxes_by_pmid, pair_orient, first_orient, normVars, csv, result, traceVars, callVars>>

(***************************************************************************)
(* Action descriptions, as PAIR_RE and TAIL_PAIR_RE read them.             *)
(*   match   PAIR_RE.search(s) found an endpoint pair                      *)
(*   verb    group "verb": the verb word written in the description        *)
(*   A, Ar, B, Br   groups A, Ar, B, Br                                    *)
(*   pairs   TAIL_PAIR_RE.findall(s), in text order                        *)
(***************************************************************************)
RangeA == "73-84"

RangeB == "70-81"

\* "73-84" and "70-81" are themselves found by TAIL_PAIR_RE
RangePairs == << <<"73", "84">>, <<"70", "81">> >>

\* What follows the endpoint pair in the description.
Tails ==
    { <<>>,
      << <<"M#10", "M#10">> >>,
      << <<"M#9", "M#9">> >>,
      << <<"SB7", "SB7">> >>,
      << <<"M#9", "M#10">> >>,
      << <<"M#9", "M#9">>, <<"Box", "400D5">> >> }

\* The verb word a description can carry (PAIR_RE, group "verb").
DescVerbs == {"Splice", "BREAK"}

PairDescs ==
    { [match |-> TRUE, verb |-> v, A |-> ab[1], Ar |-> RangeA, B |-> ab[2],
       Br |-> RangeB, pairs |-> RangePairs \o t] :
         v \in DescVerbs,
         ab \in {p \in PMIDs \X PMIDs : p[1] # p[2]},
         t \in Tails }

\* e.g. "Cable info": no endpoint pair to find, no action word
NoPairDesc ==
    [match |-> FALSE, verb |-> "", A |-> "", Ar |-> "", B |-> "", Br |-> "",
     pairs |-> <<>>]

(***************************************************************************)
(* LOC_TOKEN_RE and _pick_location_tail.                                   *)
(***************************************************************************)
\* <prefix>\d+ , ignoring case
MatchPrefixDigits(cs, prefix) ==
    /\ Len(cs) > Len(prefix)
    /\ Lower(SubSeq(cs, 1, Len(prefix))) = prefix
    /\ \A i \in (Len(prefix) + 1)..Len(cs) : IsDigit(cs[i])

\* <prefix>\d+[A-Z]? , ignoring case
MatchPrefixDigitsLetter(cs, prefix) ==
    \/ MatchPrefixDigits(cs, prefix)
    \/ /\ Len(cs) > Len(prefix) + 1
       /\ IsLetter(cs[Len(cs)])
       /\ MatchPrefixDigits(SubSeq(cs, 1, Len(cs) - 1), prefix)

\* LOC_TOKEN_RE.match(tok)
LocToken(tok) ==
    LET cs == Spell[tok]
    IN  \/ MatchPrefixDigitsLetter(cs, <<"m", "#">>)
        \/ MatchPrefixDigitsLetter(cs, <<"d", "#">>)
        \/ MatchPrefixDigits(cs, <<"p", "a">>)
        \/ MatchPrefixDigits(cs, <<"b", "f", "m", "a">>)

\* _pick_location_tail, given TAIL_PAIR_RE.findall(s)
RECURSIVE PickLocationTail(_)
PickLocationTail(pairs) ==
    IF pairs = <<>> THEN <<"", "">>
    ELSE LET p == pairs[Len(pairs)]
         IN  IF LocToken(p[1]) /\ LocToken(p[2]) THEN p
             ELSE PickLocationTail(SubSeq(pairs, 1, Len(pairs) - 1))

(***************************************************************************)
(* _find_common_box.  `for bx in common` walks a Python set of strings,    *)
(* whose order is not fixed: the operator returns every box the call can   *)
(* return.                                                                 *)
(***************************************************************************)
DictGet(d, key, default) == IF key \in DOMAIN d THEN d[key] ELSE default

\* sorted(common)[-1]: the last id instead of the first
SortedLast(common) ==
    CHOOSE b \in common : \A c \in common \ {b} : StrLess(Spell[c], Spell[b])

\* sorted(common)[0]
SortedFirst(common) ==
    CHOOSE b \in common : \A c \in common \ {b} : StrLess(Spell[b], Spell[c])

\* _find_common_box without lines 182-185: the location hint is not looked at
FindCommonBoxNoHint(A, B, byBox, byPmid, loc_hint) ==
    LET common == DictGet(byPmid, A, {}) \cap DictGet(byPmid, B, {})
        ordered == { bx \in common :
                       LET om == DictGet(byBox, bx, EmptyDict)
                       IN  A \in DOMAIN om /\ B \in DOMAIN om /\ om[A] <= om[B] }
    IN  IF common = {} THEN {None}
        ELSE IF Cardinality(common) = 1 THEN common
        ELSE IF ordered # {} THEN ordered
        ELSE {SortedFirst(common)}

FindCommonBox(A, B, byBox, byPmid, loc_hint) ==
    IF /\ loc_hint # None
       /\ loc_hint \in DOMAIN byBox
       /\ A \in DOMAIN byBox[loc_hint]
       /\ B \in DOMAIN byBox[loc_hint]
    THEN {loc_hint}
    ELSE LET common == DictGet(byPmid, A, {}) \cap DictGet(byPmid, B, {})
             ordered == { bx \in common :
                            LET om == DictGet(byBox, bx, EmptyDict)
                            IN  A \in DOMAIN om /\ B \in DOMAIN om /\ om[A] <= om[B] }
         IN  IF common = {} THEN {None}
             ELSE IF Cardinality(common) = 1 THEN common
             ELSE IF ordered # {} THEN ordered
             ELSE {SortedFirst(common)}

(***************************************************************************)
(* _normalize_desc.                                                        *)
(***************************************************************************)
\* lines 218-224 without the label test: the verb word of the description stays
VerbOfDescription(label, verb) == verb

\* lines 218-224: `verb` is the verb word of the description when the label
\* is tested, and comes from the label alone
VerbOf(label, verb) ==
    IF \/ Contains(<<"r", "e", "m", "o", "v", "e">>, Lower(Spell[label]))
       \/ Contains(<<"b", "r", "e", "a", "k">>, Lower(Spell[label]))
    THEN "BREAK"
    ELSE "Splice"

\* VerbOf, tabulated
VerbTable == [l \in Labels, v \in DescVerbs |-> VerbOf(l, v)]

\* lines 227-233: the location pair kept in the output
LocPair(pairs) == IF pairs # <<>> THEN PickLocationTail(pairs) ELSE <<"", "">>

\* LocPair, tabulated
LocPairTable == [ps \in {RangePairs \o t : t \in Tails} |-> LocPair(ps)]

\* line 234
LocHint(loc) == IF loc[1] = loc[2] /\ loc[1] # "" THEN loc[1] ELSE None

\* lines 238-248 without fallback 2 (lines 250-256)
SwappedWithoutFallback2(A, B, bx, byBox, byPmid, po) ==
    IF bx # None
    THEN LET om == DictGet(byBox, bx, EmptyDict)
         IN  A \in DOMAIN om /\ B \in DOMAIN om /\ om[A] > om[B]
    ELSE /\ {A, B} \in DOMAIN po
         /\ {A, B} = {po[{A, B}][1], po[{A, B}][2]} /\ A = po[{A, B}][2]

\* lines 238-256: TRUE when the endpoints are swapped, `box` being the box
\* that _find_common_box returned
Swapped(A, B, bx, byBox, byPmid, po) ==
    IF bx # None
    THEN LET om == DictGet(byBox, bx, EmptyDict)
         IN  A \in DOMAIN om /\ B \in DOMAIN om /\ om[A] > om[B]
    ELSE IF {A, B} \in DOMAIN po
         THEN {A, B} = {po[{A, B}][1], po[{A, B}][2]} /\ A = po[{A, B}][2]
         ELSE LET a_boxes == DictGet(byPmid, A, {})
                  b_boxes == DictGet(byPmid, B, {})
              IN  ~(a_boxes # {} /\ b_boxes = {}) /\ (b_boxes # {} /\ a_boxes = {})

\* lines 240-241 as `A, B = B, A`: the ids change sides and the ranges stay
EmitSwapIdsOnly(verb, d, loc, swap) ==
    [kind |-> "pair",
     verb |-> verb,
     left |-> IF swap THEN d.B ELSE d.A,
     leftRange |-> d.Ar,
     right |-> IF swap THEN d.A ELSE d.B,
     rightRange |-> d.Br,
     locA |-> loc[1],
     locB |-> loc[2]]

\* lines 240-241 and 259-262: the normalized description, `swap` telling
\* whether `A, B, Ar, Br = B, A, Br, Ar` ran
Emit(verb, d, loc, swap) ==
    [kind |-> "pair",
     verb |-> verb,
     left |-> IF swap THEN d.B ELSE d.A,
     leftRange |-> IF swap THEN d.Br ELSE d.Ar,
     right |-> IF swap THEN d.A ELSE d.B,
     rightRange |-> IF swap THEN d.Ar ELSE d.Br,
     locA |-> loc[1],
     locB |-> loc[2]]

\* the call with _find_common_box returning whichever common box the set
\* hands out first (lines 187-191 followed by `return next(iter(common))`)
NormalizeDescRunsAnyBox(label, d, byBox, byPmid, po) ==
    IF ~d.match
    THEN {[box |-> None, out |-> [kind |-> "raw", text |-> d]]}
    ELSE LET verb == VerbTable[label, d.verb]
             loc == LocPairTable[d.pairs]
             common == DictGet(byPmid, d.A, {}) \cap DictGet(byPmid, d.B, {})
         IN  { [box |-> bx,
                out |-> Emit(verb, d, loc, Swapped(d.A, d.B, bx, byBox, byPmid, po))] :
                 bx \in IF common = {} THEN {None} ELSE common }

\* every run of the call: the box _find_common_box returned (local `box`,
\* line 237) and the description returned
NormalizeDescRuns(label, d, byBox, byPmid, po) ==
    IF ~d.match
    THEN {[box |-> None, out |-> [kind |-> "raw", text |-> d]]}
    ELSE LET verb == VerbTable[label, d.verb]
             loc == LocPairTable[d.pairs]
             loc_hint == LocHint(loc)
         IN  { [box |-> bx,
                out |-> Emit(verb, d, loc, Swapped(d.A, d.B, bx, byBox, byPmid, po))] :
                 bx \in FindCommonBox(d.A, d.B, byBox, byPmid, loc_hint) }

\* a call _normalize_desc(action, desc, ca_order_by_box, boxes_by_pmid, pair_orient)
NormalizeDesc(label, d) ==
    /\ pc = "indexed"
    /\ action' = label
    /\ desc' = d
    /\ \E run \in NormalizeDescRuns(label, d, ca_order_by_box, boxes_by_pmid,
                                    pair_orient) :
          /\ box' = run.box
          /\ out' = run.out
    /\ pc' = "normalized"
    /\ UNCHANGED <<launchVars, parseVars, csv, result, traceVars, callVars>>

(***************************************************************************)
(* compute_fibre_actions.  A table is the sequence of its rows, a row the  *)
(* Action label and the Description.                                       *)
(***************************************************************************)
Desc(v, a, b, t) ==
    [match |-> TRUE, verb |-> v, A |-> a, Ar |-> RangeA, B |-> b, Br |-> RangeB,
     pairs |-> RangePairs \o t]

\* "1: Add,Splice 41122 [73-84] 41121 [70-81] M#10 - M#10" (test_json_orientation)
AddRow == [label |-> "1: Add",
           d |-> Desc("Splice", "41122", "41121", << <<"M#10", "M#10">> >>)]

\* "2: Remove (E),Splice 41123 [73-84] 41124 [70-81]"
RemoveRow == [label |-> "2: Remove (E)", d |-> Desc("Splice", "41123", "41124", <<>>)]

\* csv_source is None
NoCsv == [given |-> FALSE, rows |-> <<>>]

\* The action tables that are uploaded.
Uploads == { <<AddRow>>, <<AddRow, RemoveRow>> }

\* _read_actions_csv, lines 47-64: the body stops after the header search
\* (LOC_TOKEN_RE at column 0 ends the function; lines 78-98 belong to
\* _pick_location_tail, after its return), so the call returns None.
ReadActionsCsv(upload) == None

\* line 301: the Description holds the word Splice, BREAK or Remove
HasActionWord(d) == d.verb # ""

\* lines 304-307: the tables the list comprehension can build
RECURSIVE NormalizeRows(_, _, _, _)
NormalizeRows(rows, byBox, byPmid, po) ==
    IF rows = <<>> THEN {<<>>}
    ELSE IF ~HasActionWord(rows[1].d) THEN NormalizeRows(Tail(rows), byBox, byPmid, po)
    ELSE { <<[label |-> rows[1].label, d |-> run.out]>> \o rest :
             run \in NormalizeDescRuns(rows[1].label, rows[1].d, byBox, byPmid, po),
             rest \in NormalizeRows(Tail(rows), byBox, byPmid, po) }

\* compute_fibre_actions, lines 294-310: every outcome of the call, the three
\* maps being _parse_json_for_order(json_source)
ComputeFibreActionsRuns(upload, byBox, byPmid, po) ==
    LET df == ReadActionsCsv(upload)
    IN  IF df = None
        THEN {[raised |-> "AttributeError", rows |-> <<>>]}   \* line 295: df.empty
        ELSE IF df = <<>>
        THEN {[raised |-> None, rows |-> <<>>]}
        ELSE { [raised |-> None, rows |-> rows] :
                 rows \in NormalizeRows(df, byBox, byPmid, po) }

\* a call compute_fibre_actions(csv_source, json_source), json_source being
\* the document whose index the state holds
ComputeFibreActions(upload) ==
    /\ pc = "indexed"
    /\ csv' = [given |-> TRUE, rows |-> upload]
    /\ result' \in ComputeFibreActionsRuns(upload, ca_order_by_box, boxes_by_pmid,
                                           pair_orient)
    /\ pc' = "computed"
    /\ UNCHANGED <<launchVars, parseVars, normVars, traceVars, callVars>>

Init ==
    /\ pc = "parsing"
    /\ ca_order_by_box = EmptyDict
    /\ boxes_by_pmid = EmptyDict
    /\ pair_orient = EmptyDict
    /\ current_box = None
    /\ order_map = EmptyDict
    /\ nlines = 0
    /\ first_orient = EmptyDict
    /\ ca_seen = <<>>
    /\ action = None
    /\ desc = None
    /\ box = None
    /\ out = None
    /\ csv = NoCsv
    /\ result = None
    /\ payload = <<>>
    /\ nsec = 0
    /\ order = <<>>
    /\ arg = None
    /\ ret = None
    /\ LauncherIdle

Next ==
    \/ \E hdr \in Boxes : ParseBoxHeader(hdr)
    \/ \E pmid \in PMIDs : ParseCALine(pmid)
    \/ \E a, b \in SplicePMIDs : a # b /\ ParsePairLine(a, b)
    \/ ParseOtherLine
    \/ EndBlob
    \/ EndParse
    \/ \E label \in Labels, d \in PairDescs \cup {NoPairDesc} : NormalizeDesc(label, d)
    \/ \E upload \in Uploads : ComputeFibreActions(upload)

Spec == Init /\ [][Next]_vars

(***************************************************************************)
(* fiber_trace.py: _compact and _group_splices.  A splice line is the      *)
(* PMIDs _pmids finds in it and the fibre numbers _FNUM finds in it, both  *)
(* in text order.  _compact returns text such as "1-3,7"; the model keeps  *)
(* its pieces: <<1, 3>> for "1-3", <<7>> for "7".                          *)
(***************************************************************************)
\* sorted(set), ascending
RECURSIVE SortedInts(_)
SortedInts(S) ==
    IF S = {} THEN <<>>
    ELSE LET m == CHOOSE x \in S : \A y \in S : x <= y
         IN  <<m>> \o SortedInts(S \ {m})

\* _compact, lines 41-45: the loop over s[1:], with the open run (a, b)
RECURSIVE CompactLoop(_, _, _, _)
CompactLoop(s, a, b, runs) ==
    IF s = <<>> THEN Append(runs, <<a, b>>)
    ELSE IF s[1] = b + 1
         THEN CompactLoop(Tail(s), a, s[1], runs)
         ELSE CompactLoop(Tail(s), s[1], s[1], Append(runs, <<a, b>>))

\* line 46: str(x) if x == y else f"{x}-{y}"
FormatRun(r) == IF r[1] = r[2] THEN <<r[1]>> ELSE <<r[1], r[2]>>

CompactSingles(nums) ==
    LET s == SortedInts(Range(nums))
    IN  [i \in DOMAIN s |-> <<s[i]>>]

\* _compact, lines 38-46 (the numbers are non-negative ints: str(n).isdigit())
Compact(nums) ==
    LET s == SortedInts(Range(nums))
    IN  IF s = <<>> THEN <<>>
        ELSE LET runs == CompactLoop(Tail(s), s[1], s[1], <<>>)
             IN  [i \in DOMAIN runs |-> FormatRun(runs[i])]

\* line 123: the line names two PMIDs and two fibre numbers
Paired(ln) == Len(ln.pmids) >= 2 /\ Len(ln.fnums) >= 2

\* lines 124-126: the key of the line in `pairs`
PairKey(ln) == <<ln.pmids[1], ln.pmids[Len(ln.pmids)]>>

\* lines 119-127: `pairs`, its keys in insertion order
RECURSIVE PairsOf(_, _)
PairsOf(splices, pairs) ==
    IF splices = <<>> THEN pairs
    ELSE LET ln == splices[1]
             key == PairKey(ln)
             L == ln.fnums[1]
             R == ln.fnums[Len(ln.fnums)]
             at == { i \in DOMAIN pairs : pairs[i].key = key }
         IN  IF ~Paired(ln) THEN PairsOf(Tail(splices), pairs)
             ELSE IF at = {}
             THEN PairsOf(Tail(splices),
                          Append(pairs, [key |-> key, L |-> <<L>>, R |-> <<R>>]))
             ELSE PairsOf(Tail(splices),
                          [i \in DOMAIN pairs |->
                             IF i \in at
                             THEN [pairs[i] EXCEPT !.L = Append(@, L),
                                                   !.R = Append(@, R)]
                             ELSE pairs[i]])

\* line 129: max(pairs.items(), key=len(L)) gives the first of the largest
MaxPair(pairs) ==
    pairs[CHOOSE i \in DOMAIN pairs :
            /\ \A j \in DOMAIN pairs : Len(pairs[j].L) <= Len(pairs[i].L)
            /\ \A j \in DOMAIN pairs : j < i => Len(pairs[j].L) < Len(pairs[i].L)]

\* line 130: cnt
FiberCount(LR) == Cardinality(Range(LR.L))

\* lines 118 and 128: return None
NoGroup == [lp |-> None, rp |-> None, Lc |-> <<>>, Rc |-> <<>>, cnt |-> 0]

\* _group_splices, lines 117-132: no group, or the text's parts and cnt
GroupSplices(splices) ==
    LET pairs == PairsOf(splices, <<>>)
    IN  IF pairs = <<>> THEN NoGroup
        ELSE LET LR == MaxPair(pairs)
             IN  [lp |-> LR.key[1], rp |-> LR.key[2],
                  Lc |-> Compact(LR.L), Rc |-> Compact(LR.R),
                  cnt |-> FiberCount(LR)]

(***************************************************************************)
(* fiber_trace.py: build_fiber_trace, insert_actions and build_trace_and_  *)
(* actions_from_sources.  A section is what _split returns for one         *)
(* location: `locline` is the location line _parse_section derives from    *)
(* lines[0] (lines[0] itself when _HDR does not match it: `matched`),      *)
(* `equip` is lines[1], `body` the lines after them.  The PMIDs of the     *)
(* model are digit strings, which _pmids' upper() leaves as they are.      *)
(***************************************************************************)
CALine(p) == [kind |-> "CA", pmids |-> <<p>>]

\* "PMID: a, ... .F<L> -- Splice -- PMID: b, ... .F<R>"
FibreLine(a, L, b, R) == [kind |-> "splice", pmids |-> <<a, b>>, fnums |-> <<L, R>>]

SpliceLine(a, b) == FibreLine(a, 1, b, 1)

\* line 106, calc=None; otdr=None: no number (the numbers [0-9]+ finds are
\* never negative)
NoLength == -1

\* "PMID: p ... Calculated: <calc> ... OTDR: <otdr>", either number absent
LenLine(p, calc, otdr) == [kind |-> "len", pmids |-> <<p>>, calc |-> calc, otdr |-> otdr]

SecPA100 == [locline |-> "PA100", matched |-> TRUE, equip |-> "M#10",
             body |-> <<CALine("41121"), SpliceLine("41121", "41122")>>]

SecPA200 == [locline |-> "PA200", matched |-> TRUE, equip |-> "M#9",
             body |-> <<CALine("41123"), SpliceLine("41123", "41124")>>]

\* a second section of location PA100 / box M#10
SecPA100Again == [locline |-> "PA100", matched |-> TRUE, equip |-> "M#10",
                  body |-> <<CALine("41123")>>]

\* a location without cables
SecPA300 == [locline |-> "PA300", matched |-> TRUE, equip |-> "SB7", body |-> <<>>]

\* length lines about one cable of PA100 / M#10
SecPA100Lengths ==
    [locline |-> "PA100", matched |-> TRUE, equip |-> "M#10",
     body |-> <<LenLine("41121", 100, NoLength), LenLine("41121", NoLength, 50),
                LenLine("41121", 200, NoLength)>>]

SecPA100Remeasured ==
    [locline |-> "PA100", matched |-> TRUE, equip |-> "M#10",
     body |-> <<LenLine("41121", 300, 60)>>]

\* a section whose first line is no location header
SecNoHeader == [locline |-> "Presented by", matched |-> FALSE, equip |-> "M#9",
                body |-> <<CALine("41124"), LenLine("41124", 70, NoLength)>>]

Sections == {SecPA100, SecPA200, SecPA100Again, SecPA300, SecPA100Lengths,
             SecPA100Remeasured, SecNoHeader}

\* Most sections of a document.
MaxSections == 3

RECURSIVE SeqsUpTo(_, _)
SeqsUpTo(S, n) ==
    IF n = 0 THEN {<<>>}
    ELSE LET shorter == SeqsUpTo(S, n - 1)
         IN  shorter \cup { Append(q, x) : q \in shorter, x \in S }

Payloads == SeqsUpTo(Sections, MaxSections)

\* lines 111-112 and 156-157: the stored pair after a line / a section that
\* gives (calc, otdr)
MergeLength(prev, calc, otdr) ==
    <<IF calc # NoLength THEN calc ELSE prev[1],
      IF otdr # NoLength THEN otdr ELSE prev[2]>>

\* _parse_section, lines 103-113: `lengths` after the length lines of the body
RECURSIVE LengthsOf(_, _)
LengthsOf(body, lengths) ==
    IF body = <<>> THEN lengths
    ELSE LET ln == body[1]
         IN  IF ln.kind # "len" \/ ln.pmids = <<>>
             THEN LengthsOf(Tail(body), lengths)
             ELSE LET pmid == ln.pmids[1]
                      prev == DictGet(lengths, pmid, <<NoLength, NoLength>>)
                  IN  LengthsOf(Tail(body),
                                [p \in DOMAIN lengths \cup {pmid} |->
                                   IF p = pmid
                                   THEN MergeLength(prev, ln.calc, ln.otdr)
                                   ELSE lengths[p]])

\* lines 100, 102, 113: the PMIDs a line adds to pmid_sig
SigOf(ln) ==
    IF ln.kind = "len"
    THEN (IF ln.pmids = <<>> THEN {} ELSE {ln.pmids[1]})
    ELSE Range(ln.pmids)

\* _parse_section, lines 79-115.  eq_loc is "<city>, <site>" of a header that
\* matches, which names the location as the location line does.
\* line 81: gmap_url=None
NoUrl == <<>>

\* the coordinates the headers of the locations carry (groups lat, lon of _HDR)
LatLon ==
    [l \in {"PA100", "PA200", "PA300"} |->
        IF l = "PA100" THEN <<"43.6", "-79.4">>
        ELSE IF l = "PA200" THEN <<"43.7", "-79.5">>
        ELSE <<"43.8", "-79.6">>]

\* line 87: f"https://www.google.com/maps?q={lat},{lon}"
GmapUrl(lat, lon) == <<"https://www.google.com/maps?q=", lat, ",", lon>>

ParseSection(sec) ==
    [locline |-> sec.locline,
     equip |-> sec.equip,
     gmap |-> IF sec.matched
              THEN GmapUrl(LatLon[sec.locline][1], LatLon[sec.locline][2])
              ELSE NoUrl,
     eq_loc |-> IF sec.matched THEN sec.locline ELSE None,
     cables |-> { sec.body[i] : i \in {j \in DOMAIN sec.body : sec.body[j].kind = "CA"} },
     splices |-> SelectSeq(sec.body, LAMBDA ln : ln.kind = "splice"),
     lengths |-> LengthsOf(sec.body, EmptyDict),
     pmids |-> UNION { SigOf(sec.body[i]) : i \in DOMAIN sec.body }]

\* lines 154-157: the lengths of a section merged into those of its block
MergeLengths(old, new) ==
    [p \in DOMAIN old \cup DOMAIN new |->
       IF p \in DOMAIN new
       THEN MergeLength(DictGet(old, p, <<NoLength, NoLength>>), new[p][1], new[p][2])
       ELSE old[p]]

\* build_fiber_trace, lines 145-157: merge a parsed section into agg_map/order
Aggregate(blocks, ps) ==
    IF \E i \in DOMAIN blocks :
           blocks[i].locline = ps.locline /\ blocks[i].equip = ps.equip
    THEN [i \in DOMAIN blocks |->
            IF blocks[i].locline = ps.locline /\ blocks[i].equip = ps.equip
            THEN [blocks[i] EXCEPT !.cables = @ \cup ps.cables,
                                   !.splices = @ \o ps.splices,
                                   !.pmids = @ \cup ps.pmids,
                                   !.lengths = MergeLengths(@, ps.lengths)]
            ELSE blocks[i]]
    ELSE Append(blocks, [ps EXCEPT !.lengths = MergeLengths(EmptyDict, @)])

\* build_fiber_trace, one turn of the loop over the sections (lines 142-157)
TraceSection ==
    /\ pc = "tracing"
    /\ nsec < Len(payload)
    /\ order' = Aggregate(order, ParseSection(payload[nsec + 1]))
    /\ nsec' = nsec + 1
    /\ UNCHANGED <<launchVars, pc, parseVars, normVars, csv, result, payload, callVars>>

\* the PMIDs of the model in the order sorted() gives them
TracePMIDs == <<"41121", "41122", "41123", "41124", "41125", "41126">>

\* lines 160-161: agg_map[key]["eq_loc"] or key[0]
LocationOf(b) == IF b.eq_loc # None THEN b.eq_loc ELSE b.locline

\* line 161: z_loc
ZLoc(blocks) == IF blocks = <<>> THEN "" ELSE LocationOf(blocks[Len(blocks)])

\* line 160: a_loc
ALoc(blocks) == IF blocks = <<>> THEN "" ELSE LocationOf(blocks[1])

\* lines 171-184: the rows of one location block
BlockRows(b) ==
    LET cablePmids == { c.pmids[1] : c \in b.cables }
        cabs == SelectSeq(TracePMIDs, LAMBDA p : p \in cablePmids)
        lens == SelectSeq(TracePMIDs, LAMBDA p : p \in DOMAIN b.lengths)
        grp == GroupSplices(b.splices)
    IN  <<[item |-> "Equipment Location", text |-> b.locline]>>
        \o (IF b.equip # "" THEN <<[item |-> "Equipment", text |-> b.equip]>>
            ELSE <<>>)
        \o [i \in DOMAIN cabs |-> [item |-> "Cable[attach]", text |-> cabs[i]]]
        \o (IF grp # NoGroup THEN <<[item |-> "Existing Splice", text |-> grp]>>
            ELSE <<>>)
        \o [i \in DOMAIN lens |->
              [item |-> "CableInfo", text |-> <<lens[i], b.lengths[lens[i]]>>]]

\* lines 172-184: the entries of gmaps that go with the rows of one block
BlockGmaps(b) ==
    <<b.gmap>> \o [i \in 1..(Len(BlockRows(b)) - 1) |-> NoUrl]

\* lines 164-184: gmaps, one append per row
RECURSIVE TraceGmaps(_, _)
TraceGmaps(blocks, gmaps) ==
    IF blocks = <<>> THEN gmaps
    ELSE TraceGmaps(Tail(blocks), gmaps \o BlockGmaps(blocks[1]))

\* lines 164-187: rows, ranges (first and last row of each block) and meta
RECURSIVE TraceRows(_, _, _)
TraceRows(blocks, rows, ranges) ==
    IF blocks = <<>> THEN [rows |-> rows, ranges |-> ranges]
    ELSE LET br == BlockRows(blocks[1])
         IN  TraceRows(Tail(blocks), rows \o br,
                       Append(ranges, <<Len(rows) + 1, Len(rows) + Len(br)>>))

\* build_fiber_trace, lines 159-191: what the call returns
BuildFiberTrace(blocks) ==
    LET a_loc == ALoc(blocks)
        z_loc == ZLoc(blocks)
        t == TraceRows(blocks,
                       <<[item |-> "A Location", text |-> a_loc],
                         [item |-> "Z Location", text |-> z_loc]>>, <<>>)
    IN  [rows |-> t.rows, gmaps |-> TraceGmaps(blocks, <<NoUrl, NoUrl>>),
         ranges |-> t.ranges,
         meta |-> [i \in DOMAIN blocks |-> blocks[i].pmids],
         a_loc |-> a_loc, z_loc |-> z_loc]

\* build_fiber_trace(payload) called on its own returns (line 191)
BuildFiberTraceReturn ==
    /\ pc = "tracing"
    /\ csv = NoCsv
    /\ nsec = Len(payload)
    /\ ret' = BuildFiberTrace(order)
    /\ pc' = "traced"
    /\ UNCHANGED <<launchVars, parseVars, normVars, csv, result, traceVars, arg>>

\* _label_from_actiondesc, lines 221-225, on a row compute_fibre_actions returned
LabelFromActionDesc(row) ==
    LET a == Lower(Spell[row.label])
    IN  IF Contains(<<"r", "e", "m", "o", "v", "e">>, a) \/ row.d.verb = "BREAK"
        THEN "Break Splice"
        ELSE "Splice Required"   \* the description holds "splice"

BestBlockLatest(blocks, pmidset) ==
    LET ov(i) == Cardinality(pmidset \cap blocks[i].pmids)
        best == { i \in DOMAIN blocks :
                    /\ ov(i) > 0
                    /\ \A j \in DOMAIN blocks : ov(j) <= ov(i)
                    /\ \A j \in DOMAIN blocks : j > i => ov(j) < ov(i) }
    IN  IF best = {} THEN 0 ELSE CHOOSE i \in best : TRUE

\* insert_actions, lines 264-269: the first block with the largest PMID
\* overlap, 0 when no block shares a PMID
BestBlock(blocks, pmidset) ==
    LET ov(i) == Cardinality(pmidset \cap blocks[i].pmids)
        best == { i \in DOMAIN blocks :
                    /\ ov(i) > 0
                    /\ \A j \in DOMAIN blocks : ov(j) <= ov(i)
                    /\ \A j \in DOMAIN blocks : j < i => ov(j) < ov(i) }
    IN  IF best = {} THEN 0 ELSE CHOOSE i \in best : TRUE

\* insert_actions, lines 252-280: the rows inserted, each with its block
RECURSIVE InsertActions(_, _)
InsertActions(blocks, rows) ==
    IF rows = <<>> THEN <<>>
    ELSE LET row == rows[1]
             rest == InsertActions(blocks, Tail(rows))
             best == IF row.d.kind = "pair"
                     THEN BestBlock(blocks, {row.d.left, row.d.right})
                     ELSE 0
         IN  IF best = 0 THEN rest
             ELSE <<[block |-> best, item |-> LabelFromActionDesc(row),
                     action |-> row.label, d |-> row.d]>> \o rest

\* lines 278-280: stats
StatsOf(inserted) ==
    LET removes == { i \in DOMAIN inserted :
                       Contains(<<"r", "e", "m", "o", "v", "e">>,
                                Lower(Spell[inserted[i].action])) }
        adds == { i \in DOMAIN inserted \ removes :
                    Contains(<<"a", "d", "d">>, Lower(Spell[inserted[i].action])) }
    IN  [inserted |-> Len(inserted), adds |-> Cardinality(adds),
         removes |-> Cardinality(removes)]

\* lines 284-293: the row after which the rows of addmap[bi] go: the last
\* cable row of the block, else its last equipment row, else its first row
InsertAt(rows, range) ==
    LET cab == { i \in range[1]..range[2] : rows[i].item = "Cable[attach]" }
        eq == { i \in range[1]..range[2] : rows[i].item = "Equipment" }
        last(S) == CHOOSE i \in S : \A j \in S : j <= i
    IN  IF cab # {} THEN last(cab)
        ELSE IF eq # {} THEN last(eq)
        ELSE range[1]

\* lines 295-296: the rows of addmap[bi] put into the rows of the trace
InsertBlock(rows, range, add) ==
    LET insert_at == InsertAt(rows, range)
    IN  SubSeq(rows, 1, insert_at) \o add \o SubSeq(rows, insert_at + 1, Len(rows))

\* the link list with `gm + [None]*len(add_df)`: the new entries at the end
InsertGmapsAtEnd(gm, insert_at, n) ==
    gm \o [i \in 1..n |-> NoUrl]

\* line 297: gm[:insert_at] + [None]*len(add_df) + gm[insert_at:], insert_at
\* counting the rows before the new ones
InsertGmaps(gm, insert_at, n) ==
    SubSeq(gm, 1, insert_at) \o [i \in 1..n |-> NoUrl]
        \o SubSeq(gm, insert_at + 1, Len(gm))

\* line 283: for bi in sorted(addmap.keys(), reverse=True), bi from n down to 1
RECURSIVE InsertFrom(_, _, _, _, _)
InsertFrom(bi, rows, gm, ranges, inserted) ==
    IF bi = 0 THEN [rows |-> rows, gmaps |-> gm]
    ELSE LET add == SelectSeq(inserted, LAMBDA r : r.block = bi)
             new == [i \in DOMAIN add |->
                       [item |-> add[i].item, text |-> add[i].d]]
         IN  IF add = <<>> THEN InsertFrom(bi - 1, rows, gm, ranges, inserted)
             ELSE InsertFrom(bi - 1,
                             InsertBlock(rows, ranges[bi], new),
                             InsertGmaps(gm, InsertAt(rows, ranges[bi]), Len(new)),
                             ranges, inserted)

\* insert_actions, lines 238-299, on what build_fiber_trace returned
InsertActionsRows(trace, blocks, acts) ==
    LET inserted == InsertActions(blocks, acts)
        sheet == InsertFrom(Len(blocks), trace.rows, trace.gmaps, trace.ranges, inserted)
    IN  [rows |-> sheet.rows, gmaps |-> sheet.gmaps, stats |-> StatsOf(inserted)]

\* an action of the table that names the cables a and b of the document
ActionRow(label, a, b) ==
    [label |-> label,
     d |-> Emit(VerbOf(label, "Splice"),
                [A |-> a, Ar |-> RangeA, B |-> b, Br |-> RangeB], <<"", "">>, FALSE)]

\* Rows compute_fibre_actions can return: cables of PA100, cables of PA200,
\* one cable of each, and cables the document does not hold.
ActionRows ==
    { ActionRow("1: Add", "41122", "41121"),
      ActionRow("2: Remove (E)", "41123", "41124"),
      ActionRow("1: Add", "41121", "41123"),
      ActionRow("2: Remove (E)", "41125", "41126") }

\* Most rows of an action table handed to insert_actions.
MaxActions == 2

ActionTables == SeqsUpTo(ActionRows, MaxActions)

\* a call insert_actions(df, gmaps, ranges, meta, actions_df) with what
\* build_fiber_trace returned
InsertActionsCall(acts) ==
    /\ pc = "traced"
    /\ arg' = acts
    /\ ret' = [ret EXCEPT !.rows = InsertActionsRows(ret, order, acts).rows,
                           !.gmaps = InsertActionsRows(ret, order, acts).gmaps]
                @@ [stats |-> InsertActionsRows(ret, order, acts).stats]
    /\ pc' = "inserted"
    /\ UNCHANGED <<launchVars, parseVars, normVars, csv, result, traceVars>>

\* build_trace_and_actions_from_sources, lines 361-376, once the trace is
\* built: compute_fibre_actions(csv_source, json_source=None), then
\* insert_actions
MergeActions ==
    /\ pc = "tracing"
    /\ nsec = Len(payload)
    /\ IF ~csv.given
       THEN result' = [raised |-> None, blocks |-> order, inserted |-> <<>>]
       ELSE \E run \in ComputeFibreActionsRuns(csv.rows, EmptyDict, EmptyDict,
                                               EmptyDict) :
              IF run.raised # None
              THEN result' = [raised |-> run.raised, blocks |-> <<>>,
                              inserted |-> <<>>]
              ELSE result' = [raised |-> None, blocks |-> order,
                              inserted |-> InsertActions(order, run.rows)]
    /\ pc' = "built"
    /\ UNCHANGED <<launchVars, parseVars, normVars, csv, traceVars, callVars>>

InitTrace ==
    /\ pc = "tracing"
    /\ ca_order_by_box = EmptyDict
    /\ boxes_by_pmid = EmptyDict
    /\ pair_orient = EmptyDict
    /\ current_box = None
    /\ order_map = EmptyDict
    /\ nlines = 0
    /\ first_orient = EmptyDict
    /\ ca_seen = <<>>
    /\ action = None
    /\ desc = None
    /\ box = None
    /\ out = None
    /\ csv \in {NoCsv} \cup { [given |-> TRUE, rows |-> u] : u \in Uploads }
    /\ result = None
    /\ payload \in Payloads
    /\ nsec = 0
    /\ order = <<>>
    /\ arg = None
    /\ ret = None
    /\ LauncherIdle

NextTrace ==
    \/ TraceSection
    \/ MergeActions
    \/ BuildFiberTraceReturn
    \/ \E acts \in ActionTables : InsertActionsCall(acts)

SpecTrace == InitTrace /\ [][NextTrace]_vars

(***************************************************************************)
(* Helpers of fiber_trace.py, clean_json.py and parse_device_sheet.py      *)
(* called on their own: `arg` is the argument, `ret` what the call gave.   *)
(***************************************************************************)
\* the state outside a call of a helper, `arg` and `ret` left to the call
CallInit ==
    /\ ca_order_by_box = EmptyDict
    /\ boxes_by_pmid = EmptyDict
    /\ pair_orient = EmptyDict
    /\ current_box = None
    /\ order_map = EmptyDict
    /\ nlines = 0
    /\ first_orient = EmptyDict
    /\ ca_seen = <<>>
    /\ action = None
    /\ desc = None
    /\ box = None
    /\ out = None
    /\ csv = NoCsv
    /\ result = None
    /\ payload = <<>>
    /\ nsec = 0
    /\ order = <<>>
    /\ LauncherIdle

\* Splice lines of one section: fibres 1..3 of cable 41121 spliced to fibres
\* 10..12 of cable 41122, the same splices written from the other cable, and
\* a line without fibre numbers.
Observations ==
    { FibreLine("41121", L, "41122", R) : L \in 1..3, R \in 10..12 }
    \cup { FibreLine("41122", R, "41121", R - 9) : R \in 10..12 }
    \cup { [kind |-> "splice", pmids |-> <<"41121", "41122">>, fnums |-> <<>>] }

\* Most splice lines of a section.
MaxObservations == 3

InitGroup ==
    /\ CallInit
    /\ pc = "grouping"
    /\ ret = None
    /\ arg \in SeqsUpTo(Observations, MaxObservations)

\* a call _group_splices(splices)
GroupSplicesCall ==
    /\ pc = "grouping"
    /\ ret' = GroupSplices(arg)
    /\ pc' = "grouped"
    /\ UNCHANGED <<launchVars, parseVars, normVars, csv, result, traceVars, arg>>

NextGroup == GroupSplicesCall

SpecGroup == InitGroup /\ [][NextGroup]_vars

(***************************************************************************)
(* Text helpers: _decode and _split of fiber_trace.py, _normalize_tokens   *)
(* of clean_json.py, clean_text of parse_device_sheet.py.  A text is the   *)
(* sequence of its characters; LF, CR and BSL stand for the line feed, the *)
(* carriage return and the backslash.                                      *)
(***************************************************************************)
LF == "LF"

CR == "CR"

BSL == "BSL"

\* str.isspace for the characters of the model
IsSpace(c) == c \in {" ", LF, CR}

\* str.replace(tok, rep): left to right, matches do not overlap, the text put
\* in is not searched again
RECURSIVE Replace(_, _, _)
Replace(s, tok, rep) ==
    IF Len(s) < Len(tok) THEN s
    ELSE IF SubSeq(s, 1, Len(tok)) = tok
         THEN rep \o Replace(SubSeq(s, Len(tok) + 1, Len(s)), tok, rep)
         ELSE <<s[1]>> \o Replace(Tail(s), tok, rep)

RECURSIVE LStrip(_)
LStrip(s) == IF s # <<>> /\ IsSpace(s[1]) THEN LStrip(Tail(s)) ELSE s

RECURSIVE RStrip(_)
RStrip(s) ==
    IF s # <<>> /\ IsSpace(s[Len(s)]) THEN RStrip(SubSeq(s, 1, Len(s) - 1)) ELSE s

\* str.strip()
Strip(s) == RStrip(LStrip(s))

\* re.sub(r'\s+', ' ', t)
RECURSIVE CollapseSpaces(_)
CollapseSpaces(s) ==
    IF s = <<>> THEN <<>>
    ELSE IF IsSpace(s[1]) THEN <<" ">> \o CollapseSpaces(LStrip(s))
         ELSE <<s[1]>> \o CollapseSpaces(Tail(s))

COMMA == <<"<", "C", "O", "M", "M", "A", ">">>

COLON == <<"<", "C", "O", "L", "O", "N", ">">>

OPEN == <<"<", "O", "P", "E", "N", ">">>

CLOSE == <<"<", "C", "L", "O", "S", "E", ">">>

AND == <<"<", "A", "N", "D", ">">>

\* fiber_trace._decode, lines 23-27
Decode(s) ==
    Strip(Replace(Replace(Replace(Replace(Replace(Replace(s,
        COMMA, <<",">>), COLON, <<":">>), OPEN, <<"(">>), CLOSE, <<")">>),
        AND, <<"&">>), <<BSL, "n">>, <<LF>>))

\* clean_json._normalize_tokens, lines 67-71
NormalizeTokens(s) ==
    Replace(Replace(Replace(Replace(Replace(s,
        OPEN, <<>>), CLOSE, <<>>), COMMA, <<",">>), COLON, <<":">>), <<CR>>, <<>>)

\* parse_device_sheet.clean_text, lines 21-25
CleanText(t) ==
    Strip(CollapseSpaces(Replace(Replace(Replace(Replace(Replace(t,
        COMMA, <<",">>), COLON, <<":">>), OPEN, <<"(">>), CLOSE, <<")">>),
        AND, <<"&">>)))

\* Pieces of raw text: whole placeholders, halves of a placeholder around
\* another one, white space, an escaped line feed, plain text.
Fragments ==
    { OPEN, COMMA, AND,
      <<"<", "O", "P">>, <<"E", "N", ">">>,
      <<"<", "C", "O", "M">>, <<"M", "A", ">">>,
      <<" ">>, <<CR>>, <<BSL, "n">>, <<"a">> }

\* Most pieces of a raw text.
MaxFragments == 3

RECURSIVE Concat(_)
Concat(ss) == IF ss = <<>> THEN <<>> ELSE ss[1] \o Concat(Tail(ss))

RawTexts == { Concat(fs) : fs \in SeqsUpTo(Fragments, MaxFragments) }

InitDecode ==
    /\ CallInit
    /\ pc = "decoding"
    /\ ret = None
    /\ arg \in RawTexts

\* fiber_trace._decode(x) and _decode of what it returned
DecodeCall ==
    /\ pc = "decoding"
    /\ ret' = [once |-> Decode(arg), twice |-> Decode(Decode(arg))]
    /\ pc' = "_decode"
    /\ UNCHANGED <<launchVars, parseVars, normVars, csv, result, traceVars, arg>>

\* clean_json._normalize_tokens(x) and _normalize_tokens of what it returned
NormalizeTokensCall ==
    /\ pc = "decoding"
    /\ ret' = [once |-> NormalizeTokens(arg),
               twice |-> NormalizeTokens(NormalizeTokens(arg))]
    /\ pc' = "_normalize_tokens"
    /\ UNCHANGED <<launchVars, parseVars, normVars, csv, result, traceVars, arg>>

\* parse_device_sheet.clean_text(x) and clean_text of what it returned
CleanTextCall ==
    /\ pc = "decoding"
    /\ ret' = [once |-> CleanText(arg), twice |-> CleanText(CleanText(arg))]
    /\ pc' = "clean_text"
    /\ UNCHANGED <<launchVars, parseVars, normVars, csv, result, traceVars, arg>>

NextDecode ==
    \/ DecodeCall
    \/ NormalizeTokensCall
    \/ CleanTextCall

SpecDecode == InitDecode /\ [][NextDecode]_vars

\* re.split(sep, s) for a literal separator: left to right, matches do not
\* overlap
RECURSIVE SplitOn(_, _, _)
SplitOn(s, sep, part) ==
    IF Len(s) < Len(sep) THEN <<part \o s>>
    ELSE IF SubSeq(s, 1, Len(sep)) = sep
         THEN <<part>> \o SplitOn(SubSeq(s, Len(sep) + 1, Len(s)), sep, <<>>)
         ELSE SplitOn(Tail(s), sep, Append(part, s[1]))

\* str.splitlines() of a text that does not end with a line feed
SplitLines(s) == IF s = <<>> THEN <<>> ELSE SplitOn(s, <<LF>>, <<>>)

\* line 75: while lines and lines[0].strip()==".": lines.pop(0)
RECURSIVE PopDots(_)
PopDots(lines) ==
    IF lines # <<>> /\ Strip(lines[1]) = <<".">> THEN PopDots(Tail(lines)) ELSE lines

\* lines 71-76: the sections of the parts
RECURSIVE SectionsOf(_)
SectionsOf(parts) ==
    IF parts = <<>> THEN <<>>
    ELSE LET p == parts[1]
             lines == PopDots(SelectSeq(SplitLines(Strip(p)),
                                        LAMBDA ln : Strip(ln) # <<>>))
         IN  IF Strip(p) = <<>> \/ lines = <<>>
             THEN SectionsOf(Tail(parts))
             ELSE <<lines>> \o SectionsOf(Tail(parts))

\* fiber_trace._split, lines 67-77
Split(blob) ==
    SectionsOf(SplitOn(Strip(Decode(blob)), <<LF, ".", LF>>, <<>>))

\* The characters of a blob: text, the dot, the line feed, the blank.
BlobChars == {"a", ".", LF, " "}

\* Most characters of a blob.
MaxBlobLen == 5

InitSplit ==
    /\ CallInit
    /\ pc = "splitting"
    /\ ret = None
    /\ arg \in SeqsUpTo(BlobChars, MaxBlobLen)

\* a call _split(blob)
SplitCall ==
    /\ pc = "splitting"
    /\ ret' = Split(arg)
    /\ pc' = "split"
    /\ UNCHANGED <<launchVars, parseVars, normVars, csv, result, traceVars, arg>>

NextSplit == SplitCall

SpecSplit == InitSplit /\ [][NextSplit]_vars

(***************************************************************************)
(* clean_json.py: _parse_segments_with_context.  A segment is the sequence *)
(* of its stripped lines that are neither blank nor a dot; a line is what  *)
(* the regular expressions find in it.  The numbers of a line are kept as  *)
(* the text float() is given.                                              *)
(*   node    "<city>, <name>, Address: ... : <lat>, <lon> : : <type>"      *)
(*   box     "<box_id> : OSP Splice Box - <range> : ..."                   *)
(*   CA      "CA1: PMID: <pmid>, 12F, <to_node>, <to_box>"                 *)
(*   event   "PMID: <l>, ... -- Splice -- PMID: <r>, ..."                  *)
(*   len     "PMID <pmid> Cable Length: <len> m OTDR <otdr> m"             *)
(***************************************************************************)
\* None where a float is expected
NoFloat == <<>>

\* float(text) succeeds; the text is what [\d.]+ or -?\d+(?:\.\d+)? matched
FloatOk(cs) ==
    LET body == IF cs # <<>> /\ cs[1] = "-" THEN Tail(cs) ELSE cs
    IN  /\ \A i \in DOMAIN body : IsDigit(body[i]) \/ body[i] = "."
        /\ \E i \in DOMAIN body : IsDigit(body[i])
        /\ Cardinality({ i \in DOMAIN body : body[i] = "." }) <= 1

\* float(text): the digits before and after the point
FloatOf(cs) ==
    LET dots == { i \in DOMAIN cs : cs[i] = "." }
        dot == IF dots = {} THEN Len(cs) + 1 ELSE CHOOSE i \in dots : TRUE
    IN  <<SubSeq(cs, 1, dot - 1), SubSeq(cs, dot + 1, Len(cs))>>

NodeLine(name, lat, lon, vault) ==
    [kind |-> "node", name |-> name, lat |-> lat, lon |-> lon, vault |-> vault]

BoxLine(box_id) == [kind |-> "box", box_id |-> box_id]

CableLine(pmid, to_node) == [kind |-> "CA", pmid |-> pmid, to_node |-> to_node]

EventLine(l, r) == [kind |-> "event", l |-> l, r |-> r]

LengthLine(pmid, len, otdr) == [kind |-> "len", pmid |-> pmid, len |-> len, otdr |-> otdr]

\* lines 121 and 160-162: "PA" put before a name that lacks it
WithPA == [n \in {"PA100", "200", ""} |-> IF n = "200" THEN "PA200" ELSE n]

\* lines 101-109: the state before the first segment
CleanStart ==
    [nodes |-> <<>>, boxes |-> <<>>, cables |-> <<>>, events |-> <<>>,
     a_end |-> None, z_end |-> None, current_node |-> None, current_box |-> None,
     path |-> <<>>, integrity |-> None, raised |-> None, done |-> 0]

\* lines 119-139: the node header
ParseNode(st, seg) ==
    LET h == seg[1]
        coords == IF FloatOk(h.lat) /\ FloatOk(h.lon)
                  THEN <<FloatOf(h.lat), FloatOf(h.lon)>>
                  ELSE <<NoFloat, NoFloat>>          \* lines 124-125
        vault == \E i \in DOMAIN seg : seg[i].kind = "node" /\ seg[i].vault
    IN  [st EXCEPT !.nodes = Append(@, [node_id |-> WithPA[h.name], name |-> h.name,
                                        lat |-> coords[1], lon |-> coords[2]]),
                   !.current_node = WithPA[h.name],
                   !.current_box = None,
                   !.a_end = IF vault /\ st.a_end = None THEN h.name ELSE @,
                   !.z_end = h.name]

\* lines 142-168: boxes and CA lines
RECURSIVE ParseBoxesAndCables(_, _)
ParseBoxesAndCables(st, lines) ==
    IF lines = <<>> THEN st
    ELSE LET l == lines[1]
         IN  IF l.kind = "box" /\ st.current_node # None
             THEN ParseBoxesAndCables(
                      [st EXCEPT !.current_box = l.box_id,
                                 !.boxes = Append(@, [node_id |-> st.current_node,
                                                      box_id |-> l.box_id])],
                      Tail(lines))
             ELSE IF l.kind = "CA"
             THEN ParseBoxesAndCables(
                      [st EXCEPT !.cables =
                          Append(@, [pmid |-> l.pmid,
                                     from_node |-> st.current_node,
                                     from_box |-> st.current_box,
                                     to_node |-> IF WithPA[l.to_node] = "" THEN None
                                                 ELSE WithPA[l.to_node],
                                     length_m |-> NoFloat, length_raw |-> None,
                                     otdr_m |-> NoFloat])],
                      Tail(lines))
             ELSE ParseBoxesAndCables(st, Tail(lines))

\* lines 171-178: RE_EVENT.search(seg) starts at the first "PMID: <n>," of the
\* segment, which a CA line holds too, and ends at the first splice mark
ParseEvent(st, seg) ==
    LET marks == { i \in DOMAIN seg : seg[i].kind = "event" }
        mark == CHOOSE i \in marks : \A j \in marks : i <= j
        lefts == { i \in 1..mark : seg[i].kind \in {"CA", "event"} }
        left == seg[CHOOSE i \in lefts : \A j \in lefts : i <= j]
    IN  IF marks = {} THEN st
        ELSE [st EXCEPT !.events =
                 Append(@, [pmid_left |-> IF left.kind = "CA" THEN left.pmid ELSE left.l,
                            pmid_right |-> seg[mark].r])]

\* lines 185-192: the last cable of that PMID whose length_m is None, 0 if none
CableToFill(cables, pmid) ==
    LET open == { i \in DOMAIN cables :
                    cables[i].pmid = pmid /\ cables[i].length_m = NoFloat }
    IN  IF open = {} THEN 0 ELSE CHOOSE i \in open : \A j \in open : j <= i

\* lines 180-192: length lines; float() of a text that is no number raises
RECURSIVE ParseLengths(_, _)
ParseLengths(st, lines) ==
    IF lines = <<>> THEN st
    ELSE LET l == lines[1]
             c == CableToFill(st.cables, l.pmid)
         IN  IF l.kind # "len" THEN ParseLengths(st, Tail(lines))
             ELSE IF ~FloatOk(l.len) THEN [st EXCEPT !.raised = "ValueError"]
             ELSE IF c = 0 THEN ParseLengths(st, Tail(lines))
             ELSE IF l.otdr # <<>> /\ ~FloatOk(l.otdr)
             THEN [st EXCEPT !.cables[c].length_m = FloatOf(l.len),
                             !.cables[c].length_raw = l,
                             !.raised = "ValueError"]
             ELSE ParseLengths(
                      [st EXCEPT !.cables[c].length_m = FloatOf(l.len),
                                 !.cables[c].length_raw = l,
                                 !.cables[c].otdr_m =
                                     IF l.otdr # <<>> THEN FloatOf(l.otdr) ELSE @],
                      Tail(lines))

\* lines 111-192: one segment
ParseSegmentRun(st, seg) ==
    IF seg = <<>> THEN st
    ELSE LET hasNode == seg[1].kind = "node"
             st1 == IF hasNode THEN ParseNode(st, seg) ELSE st
             lines == IF hasNode THEN Tail(seg) ELSE seg
         IN  ParseLengths(ParseEvent(ParseBoxesAndCables(st1, lines), seg), lines)

\* lines 195-204: the hops of the cables, a hop not repeated right after itself
RECURSIVE PathOf(_, _)
PathOf(cables, path) ==
    IF cables = <<>> THEN path
    ELSE LET c == cables[1]
             from == <<c.from_node, c.from_box>>
             to == <<c.to_node, None>>
             p1 == IF c.from_node # None /\ (path = <<>> \/ path[Len(path)] # from)
                   THEN Append(path, from) ELSE path
             p2 == IF c.to_node # None /\ (p1 = <<>> \/ p1[Len(p1)] # to)
                   THEN Append(p1, to) ELSE p1
         IN  PathOf(Tail(cables), p2)

\* a location with a box, a cable and its length
SegVault ==
    <<NodeLine("PA100", <<"4", "3", ".", "6">>, <<"-", "7", "9", ".", "4">>, TRUE),
      BoxLine("M#10"), CableLine("41121", "200"),
      LengthLine("41121", <<"1", "2", "0">>, <<"1", "1", "8", ".", "5">>)>>

\* a location whose cable has a length that is no number
SegBadLength ==
    <<NodeLine("200", <<"4", "3", ".", "7">>, <<"-", "7", "9", ".", "5">>, FALSE),
      CableLine("41122", "PA100"), CableLine("41123", ""),
      LengthLine("41122", <<"1", ".", "2", ".", "3">>, <<>>),
      LengthLine("41123", <<"8", "0">>, <<>>)>>

\* a segment without node header: a cable, a splice, an OTDR value that is no number
SegBadOtdr ==
    <<CableLine("41123", "200"), EventLine("41122", "41123"),
      LengthLine("41123", <<"1", "5">>, <<".">>)>>

\* a second length line about cable 41121
SegRemeasured == <<LengthLine("41121", <<"9", "9">>, <<>>)>>

\* a segment without node header and without lengths
SegSplice == <<BoxLine("M#9"), CableLine("41122", "PA100"), EventLine("41121", "41122")>>

\* cable 41121 attached at a second box, towards the same peer location
SegSecondBox == <<BoxLine("M#9"), CableLine("41121", "200")>>

Segments == {SegVault, SegBadLength, SegBadOtdr, SegRemeasured, SegSplice, SegSecondBox}

\* Most segments of a document.
MaxSegments == 3

InitClean ==
    /\ CallInit
    /\ pc = "cleaning"
    /\ arg \in SeqsUpTo(Segments, MaxSegments)
    /\ ret = CleanStart

\* _parse_segments_with_context, one turn of the loop over the segments
ParseSegment ==
    /\ pc = "cleaning"
    /\ ret.done < Len(arg)
    /\ LET st == ParseSegmentRun(ret, arg[ret.done + 1])
       IN  IF st.raised # None
           THEN ret' = st /\ pc' = "raised"
           ELSE ret' = [st EXCEPT !.done = @ + 1] /\ pc' = pc
    /\ UNCHANGED <<launchVars, parseVars, normVars, csv, result, traceVars, arg>>

\* _parse_segments_with_context returns (lines 194-209)
ParseSegmentsReturn ==
    /\ pc = "cleaning"
    /\ ret.done = Len(arg)
    /\ ret' = [ret EXCEPT !.path = PathOf(ret.cables, <<>>)]
    /\ pc' = "cleaned"
    /\ UNCHANGED <<launchVars, parseVars, normVars, csv, result, traceVars, arg>>

\* _integrity_report(nodes, cables, events), lines 211-221
IntegrityReport(nodes, cables, events) ==
    LET node_ids == { nodes[i].node_id : i \in DOMAIN nodes }
        orphan_from == { i \in DOMAIN cables : cables[i].from_node = None }
        orphan_to == { i \in DOMAIN cables :
                         /\ cables[i].to_node # None
                         /\ cables[i].to_node \notin node_ids }
        missing_len == { i \in DOMAIN cables :
                           /\ cables[i].length_m = NoFloat
                           /\ cables[i].otdr_m = NoFloat }
    IN  [counts |-> [nodes |-> Len(nodes), cables |-> Len(cables),
                     events |-> Len(events)],
         orphans_from |-> Cardinality(orphan_from),
         orphans_to |-> Cardinality(orphan_to),
         cables_missing_length |->
             Cardinality({ cables[i].pmid : i \in missing_len })]

\* run_clean, line 32: the report over what the parser returned
IntegrityReportCall ==
    /\ pc = "cleaned"
    /\ ret' = [ret EXCEPT !.integrity = IntegrityReport(ret.nodes, ret.cables, ret.events)]
    /\ pc' = "reported"
    /\ UNCHANGED <<launchVars, parseVars, normVars, csv, result, traceVars, arg>>

NextClean ==
    \/ ParseSegment
    \/ ParseSegmentsReturn
    \/ IntegrityReportCall

SpecClean == InitClean /\ [][NextClean]_vars

(***************************************************************************)
(* Finding the Connections texts of a JSON document:                       *)
(* parse_device_sheet.gather_connections,                                  *)
(* clean_json._find_connections_recursive and                              *)
(* fiber_trace._get_connection_blobs.  A JSON value is a string, a list or  *)
(* a dict (its entries in document order).                                 *)
(***************************************************************************)
JStr(text) == [t |-> "str", s |-> text, items |-> <<>>]

JList(items) == [t |-> "list", s |-> <<>>, items |-> items]

JDict(entries) == [t |-> "dict", s |-> <<>>, items |-> entries]

Entry(k, v) == [k |-> k, v |-> v]

\* dict.get(key, default) on a JSON dict
JGet(d, key, default) ==
    LET hits == { i \in DOMAIN d.items : d.items[i].k = key }
    IN  IF hits = {} THEN default ELSE d.items[CHOOSE i \in hits : TRUE].v

\* parse_device_sheet.gather_connections, lines 34-47: rec(x) and its loops
RECURSIVE GatherRec(_), GatherDict(_), GatherList(_)
GatherRec(x) ==
    IF x.t = "dict" THEN GatherDict(x.items)
    ELSE IF x.t = "list" THEN GatherList(x.items)
    ELSE <<>>

GatherDict(entries) ==
    IF entries = <<>> THEN <<>>
    ELSE (IF entries[1].k = "Connections" /\ entries[1].v.t = "str"
          THEN <<entries[1].v.s>>
          ELSE GatherRec(entries[1].v))
         \o GatherDict(Tail(entries))

GatherList(items) ==
    IF items = <<>> THEN <<>>
    ELSE GatherRec(items[1]) \o GatherList(Tail(items))

GatherConnections(obj) == GatherRec(obj)

\* clean_json._find_connections_recursive, lines 54-65
RECURSIVE FindConnectionsRecursive(_), FindInDict(_), FindInList(_)
FindConnectionsRecursive(obj) ==
    IF obj.t = "dict" THEN FindInDict(obj.items)
    ELSE IF obj.t = "list" THEN FindInList(obj.items)
    ELSE <<>>

FindInDict(entries) ==
    IF entries = <<>> THEN <<>>
    ELSE (IF entries[1].k = "Connections" /\ entries[1].v.t = "str"
          THEN <<entries[1].v.s>>
          ELSE FindConnectionsRecursive(entries[1].v))
         \o FindInDict(Tail(entries))

FindInList(items) ==
    IF items = <<>> THEN <<>>
    ELSE FindConnectionsRecursive(items[1]) \o FindInList(Tail(items))

\* fiber_trace._get_connection_blobs, lines 55-58: the loop over `inner`; an
\* item that is no dict has no .get, the exception ends the loop (lines 59-60)
\* and the blobs found so far stay
RECURSIVE BlobsOfItems(_)
BlobsOfItems(inner) ==
    IF inner = <<>> THEN <<>>
    ELSE IF inner[1].t # "dict" THEN <<>>
    ELSE LET v == JGet(inner[1], "Connections", JList(<<>>))
         IN  (IF v.t = "str" /\ Strip(v.s) # <<>> THEN <<v.s>> ELSE <<>>)
                 \o BlobsOfItems(Tail(inner))

\* lines 61-64: a blob is kept the first time it is seen
RECURSIVE FirstSeen(_, _)
FirstSeen(blobs, seen) ==
    IF blobs = <<>> THEN <<>>
    ELSE IF blobs[1] \in seen THEN FirstSeen(Tail(blobs), seen)
    ELSE <<blobs[1]>> \o FirstSeen(Tail(blobs), seen \cup {blobs[1]})

\* fiber_trace._get_connection_blobs, lines 48-65
GetConnectionBlobs(doc) ==
    LET arr == IF doc.t = "dict" THEN JGet(doc, "Report: Splice Details", JList(<<>>))
               ELSE JStr(<<>>)
        first == IF arr.t = "list" /\ arr.items # <<>> THEN arr.items[1] ELSE JStr(<<>>)
        inner == IF first.t = "dict" THEN JGet(first, "", JList(<<>>)) ELSE JStr(<<>>)
        blobs == IF inner.t = "list" THEN BlobsOfItems(inner.items) ELSE <<>>
    IN  FirstSeen(blobs, {})

\* two connection texts, each opening with a location header, and a text of
\* white space
BlobPA100 == <<"Toronto,PA100,", " ", "Address:", " ", "X", LF, ".">>

BlobPA200 == <<"Toronto,PA200,", " ", "Address:", " ", "Y", LF, ".", LF, ".">>

Blank == <<" ", LF>>

\* The elements of the inner list of a report: the text under the key
\* Connections (test shape A), the bare text (test shape B), the key one
\* level further down.
ReportItems ==
    { JDict(<<Entry("Connections", JStr(b))>>) : b \in {BlobPA100, BlobPA200, Blank} }
        \cup { JStr(b) : b \in {BlobPA100, BlobPA200} }
        \cup { JDict(<<Entry("Details", JDict(<<Entry("Connections", JStr(BlobPA200))>>))>>) }

\* Most elements of the inner list.
MaxItems == 3

\* {"Report: Splice Details": [{"": items}]}
Report(items) ==
    JDict(<<Entry("Report: Splice Details", JList(<<JDict(<<Entry("", JList(items))>>)>>))>>)

Reports == { Report(items) : items \in SeqsUpTo(ReportItems, MaxItems) }

InitConnections ==
    /\ CallInit
    /\ pc = "discovering"
    /\ arg \in Reports
    /\ ret = None

\* a call parse_device_sheet.gather_connections(obj)
GatherConnectionsCall ==
    /\ pc = "discovering"
    /\ ret' = GatherConnections(arg)
    /\ pc' = "gather_connections"
    /\ UNCHANGED <<launchVars, parseVars, normVars, csv, result, traceVars, arg>>

\* run_clean, line 20: blocks = _find_connections_recursive(raw)
FindConnectionsRecursiveCall ==
    /\ pc = "discovering"
    /\ ret' = FindConnectionsRecursive(arg)
    /\ pc' = "_find_connections_recursive"
    /\ UNCHANGED <<launchVars, parseVars, normVars, csv, result, traceVars, arg>>

\* build_fiber_trace, line 142: _get_connection_blobs(payload)
GetConnectionBlobsCall ==
    /\ pc = "discovering"
    /\ ret' = GetConnectionBlobs(arg)
    /\ pc' = "_get_connection_blobs"
    /\ UNCHANGED <<launchVars, parseVars, normVars, csv, result, traceVars, arg>>

NextConnections ==
    \/ GatherConnectionsCall
    \/ FindConnectionsRecursiveCall
    \/ GetConnectionBlobsCall

SpecConnections == InitConnections /\ [][NextConnections]_vars

(***************************************************************************)
(* launcher.main: the single-instance lock, the Streamlit child, the wait  *)
(* for the server, the window, the cleanup.  The child, the server port    *)
(* and the window are the environment: each moves on its own.              *)
(***************************************************************************)
\* Polls of wait_for_server that may find the port closed before the
\* timeout (STARTUP_TIMEOUT_S = 40 at one poll per 0.2 s in the source).
MaxPolls == 3

InitLauncher ==
    /\ pc = "main"
    /\ ca_order_by_box = EmptyDict
    /\ boxes_by_pmid = EmptyDict
    /\ pair_orient = EmptyDict
    /\ current_box = None
    /\ order_map = EmptyDict
    /\ nlines = 0
    /\ first_orient = EmptyDict
    /\ ca_seen = <<>>
    /\ action = None
    /\ desc = None
    /\ box = None
    /\ out = None
    /\ csv = NoCsv
    /\ result = None
    /\ payload = <<>>
    /\ nsec = 0
    /\ order = <<>>
    /\ arg = None
    /\ ret = None
    /\ platform \in {"win32", "darwin", "linux"}
    /\ frozen \in BOOLEAN
    /\ lock_taken \in BOOLEAN
    /\ lock_socket = None
    /\ proc = None
    /\ child = "none"
    /\ server \in {"none", "other"}     \* a server an earlier run left behind
    /\ polls = 0
    /\ exit = None

engineVars == <<parseVars, normVars, csv, result, traceVars, callVars>>

\* line 59, acquire_single_instance_lock (lines 22-30)
AcquireSingleInstanceLock ==
    /\ pc = "main"
    /\ IF lock_taken
       THEN /\ exit' = "SystemExit"          \* line 30
            /\ pc' = "ended"
            /\ UNCHANGED lock_socket
       ELSE /\ lock_socket' = "listening"
            /\ pc' = "locked"
            /\ UNCHANGED exit
    /\ UNCHANGED <<engineVars, platform, frozen, lock_taken, proc, child, server, polls>>

\* lines 62-67: the path of the app, copied to a temp dir when frozen
AppPath == IF frozen THEN "tmpdir/app/app.py" ELSE "app/app.py"

\* lines 70-73: start Streamlit unless the port answers already
LaunchStreamlit ==
    /\ pc = "locked"
    /\ IF server = "none"
       THEN proc' = AppPath /\ child' = "running"
       ELSE proc' = None /\ UNCHANGED child
    /\ pc' = "waiting"
    /\ UNCHANGED <<engineVars, platform, frozen, lock_taken, lock_socket, server, polls,
                   exit>>

\* wait_for_server, lines 51-54: one poll before the timeout
WaitForServer ==
    /\ pc = "waiting"
    /\ polls < MaxPolls
    /\ IF server # "none"
       THEN pc' = "create_window" /\ UNCHANGED polls      \* ok = True
       ELSE polls' = polls + 1 /\ UNCHANGED pc
    /\ UNCHANGED <<engineVars, platform, frozen, lock_taken, lock_socket, proc, child,
                   server, exit>>

\* wait_for_server, line 55: the timeout has passed, ok = False
WaitForServerTimeout ==
    /\ pc = "waiting"
    /\ polls = MaxPolls
    /\ pc' = "timed_out"
    /\ UNCHANGED <<engineVars, launchVars>>

\* main is between the launch and the cleanup
LauncherRunning == pc \in {"waiting", "timed_out", "create_window", "gui"}

\* the child starts to answer on the port
ServerAnswers ==
    /\ LauncherRunning
    /\ child = "running"
    /\ server = "none"
    /\ server' = "child"
    /\ UNCHANGED <<pc, engineVars, platform, frozen, lock_taken, lock_socket, proc, child,
                   polls, exit>>

\* the child exits on its own
ChildExits ==
    /\ LauncherRunning
    /\ child = "running"
    /\ child' = "exited"
    /\ server' = IF server = "child" THEN "none" ELSE server
    /\ UNCHANGED <<pc, engineVars, platform, frozen, lock_taken, lock_socket, proc, polls,
                   exit>>

\* the server of an earlier run stops
OtherServerStops ==
    /\ LauncherRunning
    /\ server = "other"
    /\ server' = "none"
    /\ UNCHANGED <<pc, engineVars, platform, frozen, lock_taken, lock_socket, proc, child,
                   polls, exit>>

\* lines 76-83: proc.stdout.read() returns at the end of the child's output,
\* that is once the child has exited; then SystemExit
StartupFailed ==
    /\ pc = "timed_out"
    /\ proc # None => child = "exited"
    /\ exit' = "SystemExit"
    /\ pc' = "ended"
    /\ UNCHANGED <<engineVars, platform, frozen, lock_taken, lock_socket, proc, child,
                   server, polls>>

\* lines 86-88: import webview and create the window
CreateWindow ==
    /\ pc = "create_window"
    /\ pc' = "gui"
    /\ UNCHANGED <<engineVars, launchVars>>

\* lines 86-88: the import or create_window raises
CreateWindowRaises ==
    /\ pc = "create_window"
    /\ exit' = "ImportError"
    /\ pc' = "ended"
    /\ UNCHANGED <<engineVars, platform, frozen, lock_taken, lock_socket, proc, child,
                   server, polls>>

\* line 91: webview.start() returns, the window was closed
WindowClosed ==
    /\ pc = "gui"
    /\ exit' = "return"
    /\ pc' = "finally"
    /\ UNCHANGED <<engineVars, platform, frozen, lock_taken, lock_socket, proc, child,
                   server, polls>>

\* line 91: webview.start() raises
WindowLoopRaises ==
    /\ pc = "gui"
    /\ exit' = "Exception"
    /\ pc' = "finally"
    /\ UNCHANGED <<engineVars, platform, frozen, lock_taken, lock_socket, proc, child,
                   server, polls>>

\* lines 94-98: stop the child if this launcher started it and it still runs;
\* terminate() ends a win32 process at once, SIGTERM asks the child to end
StopChild ==
    /\ pc = "finally"
    /\ IF proc # None /\ child = "running"
       THEN /\ child' = IF platform = "win32" THEN "exited" ELSE "signalled"
            /\ pc' = "proc_wait"
       ELSE /\ pc' = "close_lock"
            /\ UNCHANGED child
    /\ UNCHANGED <<engineVars, platform, frozen, lock_taken, lock_socket, proc, server,
                   polls, exit>>

\* lines 99-100: proc.wait(timeout=5) returns, the child has ended
ProcWait ==
    /\ pc = "proc_wait"
    /\ child' = "exited"
    /\ server' = IF server = "child" THEN "none" ELSE server
    /\ pc' = "close_lock"
    /\ UNCHANGED <<engineVars, platform, frozen, lock_taken, lock_socket, proc, polls,
                   exit>>

\* lines 101-102: proc.wait raises after 5 s, proc.kill()
ProcKill ==
    /\ pc = "proc_wait"
    /\ child = "signalled"
    /\ child' = "killed"
    /\ server' = IF server = "child" THEN "none" ELSE server
    /\ pc' = "close_lock"
    /\ UNCHANGED <<engineVars, platform, frozen, lock_taken, lock_socket, proc, polls,
                   exit>>

\* lines 103-106: lock_socket.close(), then main ends
CloseLock ==
    /\ pc = "close_lock"
    /\ lock_socket' = "closed"
    /\ pc' = "ended"
    /\ UNCHANGED <<engineVars, platform, frozen, lock_taken, proc, child, server, polls,
                   exit>>

NextLauncher ==
    \/ AcquireSingleInstanceLock
    \/ LaunchStreamlit
    \/ WaitForServer
    \/ WaitForServerTimeout
    \/ ServerAnswers
    \/ ChildExits
    \/ OtherServerStops
    \/ StartupFailed
    \/ CreateWindow
    \/ CreateWindowRaises
    \/ WindowClosed
    \/ WindowLoopRaises
    \/ StopChild
    \/ ProcWait
    \/ ProcKill
    \/ CloseLock

SpecLauncher == InitLauncher /\ [][NextLauncher]_vars

(***************************************************************************)
(* Properties.                                                             *)
(***************************************************************************)
\* a call of _normalize_desc on a description with an endpoint pair returned
NormalizedPair == pc = "normalized" /\ desc.match

\* box b has a CA order, and it lists both A and B
HoldsBoth(b, A, B) ==
    /\ b \in DOMAIN ca_order_by_box
    /\ A \in DOMAIN ca_order_by_box[b]
    /\ B \in DOMAIN ca_order_by_box[b]

\* the description ends with "X - X"
EndsWithSameBox(d, X) == d.pairs # <<>> /\ d.pairs[Len(d.pairs)] = <<X, X>>

\* the returned description lists the endpoints as in box b's CA order
FollowsBox(b) ==
    /\ {out.left, out.right} = {desc.A, desc.B}
    /\ ca_order_by_box[b][out.left] <= ca_order_by_box[b][out.right]

\* the endpoints and their ranges come back as written
KeptAsWritten ==
    /\ out.left = desc.A /\ out.leftRange = desc.Ar
    /\ out.right = desc.B /\ out.rightRange = desc.Br

\* the endpoints come back exchanged, each with its own range
Exchanged ==
    /\ out.left = desc.B /\ out.leftRange = desc.Br
    /\ out.right = desc.A /\ out.rightRange = desc.Ar

C2_VerbFromLabel ==
    NormalizedPair =>
        /\ out.verb \in {"BREAK", "Splice"}
        /\ out.verb = "BREAK" <=> action \in {"2: Remove (E)", "3: BREAK"}

\* C2 witness: label "2: Remove (E)", description saying "Splice", verb BREAK.
C2_Witness ==
    /\ NormalizedPair
    /\ action = "2: Remove (E)"
    /\ desc.verb = "Splice"
    /\ out.verb = "BREAK"

\* both endpoints are listed by the CA order of the box that was selected
SelectedBoxHoldsBoth == box # None /\ HoldsBoth(box, desc.A, desc.B)

\* C4: the first rule that decides wins: a selected box whose CA order lists
\* both endpoints fixes the output order even against a recorded splice
\* orientation, and whenever no selected box lists both endpoints the
\* recorded orientation of the pair, if any, is the output order.
C4_FirstRuleWins ==
    NormalizedPair =>
        /\ SelectedBoxHoldsBoth => FollowsBox(box)
        /\ (~SelectedBoxHoldsBoth /\ {desc.A, desc.B} \in DOMAIN pair_orient)
              => <<out.left, out.right>> = pair_orient[{desc.A, desc.B}]

\* C5: the orientation recorded for a pair is the one of the first splice
\* line naming the pair; no later line changes it.
C5_FirstSeenWins ==
    \A key \in DOMAIN first_orient :
        key \in DOMAIN pair_orient /\ pair_orient[key] = first_orient[key]

\* the boxes common to both endpoints in the reverse index
CommonBoxes ==
    { b \in Boxes : /\ b \in DictGet(boxes_by_pmid, desc.A, {})
                    /\ b \in DictGet(boxes_by_pmid, desc.B, {}) }

\* the common boxes whose CA order has index(A) <= index(B)
OrderedBoxes ==
    { b \in CommonBoxes :
        /\ HoldsBoth(b, desc.A, desc.B)
        /\ ca_order_by_box[b][desc.A] <= ca_order_by_box[b][desc.B] }

\* the box ids of the model as sorted() lists them
BoxesSorted == <<"M#10", "M#9", "SB7">>

\* the first of BoxesSorted that is in S
Smallest(S) ==
    BoxesSorted[CHOOSE i \in DOMAIN BoxesSorted :
                    /\ BoxesSorted[i] \in S
                    /\ \A j \in DOMAIN BoxesSorted : BoxesSorted[j] \in S => i <= j]

\* the description carries a location hint whose box lists both endpoints
UsableHint ==
    \E X \in Boxes :
        /\ LocHint(LocPair(desc.pairs)) = X
        /\ HoldsBoth(X, desc.A, desc.B)

\* C6: without a usable location hint the box is chosen among the boxes
\* common to A and B in the reverse index: none gives no box, exactly one is
\* taken (and its CA order decides), of several one with index(A) <= index(B)
\* is taken when there is one, else the lexicographically smallest id.
C6_CommonBoxChoice ==
    (NormalizedPair /\ ~UsableHint) =>
        /\ CommonBoxes = {} => box = None
        /\ Cardinality(CommonBoxes) = 1 => box \in CommonBoxes
        /\ (Cardinality(CommonBoxes) > 1 /\ OrderedBoxes # {}) => box \in OrderedBoxes
        /\ (Cardinality(CommonBoxes) > 1 /\ OrderedBoxes = {})
              => box = Smallest(CommonBoxes)
        /\ SelectedBoxHoldsBoth => FollowsBox(box)

\* C6 witness: M#10 and M#9 both list B before A, no hint: M#10 is selected
\* and the endpoints are exchanged.
C6_Witness ==
    /\ NormalizedPair
    /\ ~UsableHint
    /\ CommonBoxes = {"M#10", "M#9"}
    /\ OrderedBoxes = {}
    /\ box = "M#10"
    /\ Exchanged

\* no box lists both endpoints and no splice line recorded the pair
NoInformation ==
    /\ \A b \in DOMAIN ca_order_by_box : ~HoldsBoth(b, desc.A, desc.B)
    /\ {desc.A, desc.B} \notin DOMAIN pair_orient

\* p was met on a CA line of some box block (it is in the reverse index)
Known(p) == DictGet(boxes_by_pmid, p, {}) # {}

\* C7 as stated: with no box listing both endpoints and no recorded
\* orientation, the endpoints come back in their written order with their
\* written ranges, also when only one of them is known to the CA Order Index.
C7_KeepsWrittenOrder ==
    (NormalizedPair /\ NoInformation) => KeptAsWritten

\* C7 amended: as C7, except that when B is known to the reverse index and A
\* is not, B with its own range is put on the left.
C7_KeepsOrderUnlessOnlyBKnown ==
    (NormalizedPair /\ NoInformation) =>
        IF Known(desc.B) /\ ~Known(desc.A) THEN Exchanged ELSE KeptAsWritten

\* C7 witness: only B is known, nothing else is, and B comes back on the left.
C7_Witness ==
    /\ NormalizedPair
    /\ NoInformation
    /\ Known(desc.B) /\ ~Known(desc.A)
    /\ Exchanged

\* C8: in the running block the k-th distinct CA PMID (k from 0) has rank k,
\* a repeated PMID keeping its first rank, and the ranks of every box of the
\* index are exactly 0..n-1.
C8_RanksAreFirstSeenOrder ==
    /\ DOMAIN order_map = Range(ca_seen)
    /\ \A k \in DOMAIN ca_seen : order_map[ca_seen[k]] = k - 1
    /\ \A b \in DOMAIN ca_order_by_box :
          LET om == ca_order_by_box[b]
          IN  /\ {om[p] : p \in DOMAIN om} = 0..(Cardinality(DOMAIN om) - 1)
              /\ \A p, q \in DOMAIN om : om[p] = om[q] => p = q

\* C8 witness: CA lines for 41121, 41123, 41122 in that order were read and
\* the block is in the index with ranks 0, 1, 2.
C8_Witness ==
    \E b \in DOMAIN ca_order_by_box :
        /\ DOMAIN ca_order_by_box[b] = PMIDs
        /\ ca_order_by_box[b]["41121"] = 0
        /\ ca_order_by_box[b]["41123"] = 1
        /\ ca_order_by_box[b]["41122"] = 2

\* C9: an entry of the CA Order Index is never replaced or changed.
C9_BoxesNeverOverwritten ==
    [][\A b \in DOMAIN ca_order_by_box :
          /\ b \in DOMAIN ca_order_by_box'
          /\ ca_order_by_box'[b] = ca_order_by_box[b]]_vars

\* C9 witness: parsing ended, and a later block of a box already in the index
\* had a CA line for a PMID the index entry does not list.
C9_Witness ==
    /\ pc = "indexed"
    /\ \E b \in DOMAIN ca_order_by_box, p \in DOMAIN boxes_by_pmid :
          /\ b \in boxes_by_pmid[p]
          /\ p \notin DOMAIN ca_order_by_box[b]

\* C3: when the first splice line of the document for the pair reads
\* "PMID: X ... -- Splice -- PMID: Y" and no box's CA order lists both X and
\* Y, compute_fibre_actions returns the row "Y [r1] X [r2]" rewritten with X
\* and its range r2 first, Y and its range r1 second.
C3_ObservedOrientationApplied ==
    (/\ pc = "computed"
     /\ csv.rows = <<AddRow>>
     /\ {AddRow.d.A, AddRow.d.B} \in DOMAIN first_orient
     /\ first_orient[{AddRow.d.A, AddRow.d.B}] = <<AddRow.d.B, AddRow.d.A>>
     /\ \A b \in DOMAIN ca_order_by_box : ~HoldsBoth(b, AddRow.d.A, AddRow.d.B))
        => /\ result.raised = None
           /\ Len(result.rows) = 1
           /\ result.rows[1].d.kind = "pair"
           /\ result.rows[1].d.left = AddRow.d.B
           /\ result.rows[1].d.leftRange = AddRow.d.Br
           /\ result.rows[1].d.right = AddRow.d.A
           /\ result.rows[1].d.rightRange = AddRow.d.Ar

\* the rows of `inserted` with the given Detail Item
InsertedAs(item) == { i \in DOMAIN result.inserted : result.inserted[i].item = item }

\* C10: the document <<PA100, PA200>> with the table <<Add, Remove>> gives 2
\* location blocks, 1 Splice action and 1 Break action, the Splice action in
\* the block of PA100 and the Break action in the block of PA200, whose
\* PMIDs they name.
C10_EndToEnd ==
    (/\ pc = "built"
     /\ payload = <<SecPA100, SecPA200>>
     /\ csv.given
     /\ csv.rows = <<AddRow, RemoveRow>>)
        => /\ result.raised = None
           /\ Len(result.blocks) = 2
           /\ Cardinality(InsertedAs("Splice Required")) = 1
           /\ Cardinality(InsertedAs("Break Splice")) = 1
           /\ \A i \in InsertedAs("Splice Required") :
                 /\ result.inserted[i].d.verb = "Splice"
                 /\ result.blocks[result.inserted[i].block].locline = "PA100"
           /\ \A i \in InsertedAs("Break Splice") :
                 /\ result.inserted[i].d.verb = "BREAK"
                 /\ result.blocks[result.inserted[i].block].locline = "PA200"

(***************************************************************************)
(* Properties of build_fiber_trace and insert_actions.                     *)
(***************************************************************************)
\* the PMIDs insert_actions reads in the description of an action row
PmidsOfAction(row) == {row.d.left, row.d.right}

\* the block the claim names for an action row: the earliest of those that
\* share the most PMIDs with it, 0 when none shares any
TargetBlock(row) ==
    LET ov(i) == Cardinality(PmidsOfAction(row) \cap ret.meta[i])
        most == { i \in DOMAIN ret.meta :
                    ov(i) > 0 /\ \A j \in DOMAIN ret.meta : ov(j) <= ov(i) }
    IN  IF most = {} THEN 0 ELSE CHOOSE i \in most : \A j \in most : i <= j

\* the location block a row of the sheet lies in: the number of location
\* rows down to it
BlockAt(q) ==
    Cardinality({ j \in 1..q : ret.rows[j].item = "Equipment Location" })

\* the action rows of the sheet inside block i, top to bottom
ActionsInBlock(i) ==
    LET at == [q \in DOMAIN ret.rows |-> [row |-> ret.rows[q], blk |-> BlockAt(q)]]
        sel == SelectSeq(at, LAMBDA r :
                   r.blk = i /\ r.row.item \in {"Splice Required", "Break Splice"})
    IN  [k \in DOMAIN sel |-> sel[k].row.text]

\* the rows of the table whose target is block i, in table order
ActionsFor(i) ==
    LET sel == SelectSeq(arg, LAMBDA r : TargetBlock(r) = i)
    IN  [k \in DOMAIN sel |-> sel[k].d]

\* C11: insert_actions puts every action row inside the location block that
\* shares the most PMIDs with its description, the earliest such block on a
\* tie; a row that shares no PMID with any block is put nowhere and is not
\* counted in stats.
C11_PlacedByOverlap ==
    pc = "inserted" =>
        /\ \A i \in 0..Len(order) :
              ActionsInBlock(i) = (IF i = 0 THEN <<>> ELSE ActionsFor(i))
        /\ ret.stats.inserted =
              Cardinality({ k \in DOMAIN arg : TargetBlock(arg[k]) # 0 })

\* C11 witness: a row that two blocks share one PMID with went to the first
\* of them, and another row of the same table shares no PMID with any block.
C11_Witness ==
    /\ pc = "inserted"
    /\ \E k \in DOMAIN arg :
          /\ TargetBlock(arg[k]) # 0
          /\ \E j \in DOMAIN ret.meta :
                /\ j > TargetBlock(arg[k])
                /\ Cardinality(PmidsOfAction(arg[k]) \cap ret.meta[j])
                     = Cardinality(PmidsOfAction(arg[k])
                                     \cap ret.meta[TargetBlock(arg[k])])
          /\ arg[k].d \in Range(ActionsInBlock(TargetBlock(arg[k])))
    /\ \E k \in DOMAIN arg : TargetBlock(arg[k]) = 0
    /\ ret.stats.inserted = 1

(***************************************************************************)
(* Properties of _compact and _group_splices.                              *)
(***************************************************************************)
\* _group_splices returned a group
Grouped == pc = "grouped" /\ ret # NoGroup

\* the fibre indices a reported range covers
Covered(r) == r[1]..r[Len(r)]

CoveredBy(rs) == UNION { Covered(rs[i]) : i \in DOMAIN rs }

\* ascending, pairwise disjoint, non-adjacent; a range "a-b" has a < b
RangesCompact(rs) ==
    /\ \A i \in DOMAIN rs : Len(rs[i]) = 2 => rs[i][1] < rs[i][2]
    /\ \A i, j \in DOMAIN rs : i < j => rs[i][Len(rs[i])] + 1 < rs[j][1]

\* the lines that name the reported pair, left to right as reported
LinesOfGroup ==
    { i \in DOMAIN arg : Paired(arg[i]) /\ PairKey(arg[i]) = <<ret.lp, ret.rp>> }

LeftObserved == { arg[i].fnums[1] : i \in LinesOfGroup }

RightObserved == { arg[i].fnums[Len(arg[i].fnums)] : i \in LinesOfGroup }

\* (A,1)-(B,10), (A,2)-(B,11), (A,3)-(B,12)
ThreeFibres ==
    <<FibreLine("41121", 1, "41122", 10), FibreLine("41121", 2, "41122", 11),
      FibreLine("41121", 3, "41122", 12)>>

\* C12: the ranges _group_splices reports on either side are ascending,
\* pairwise disjoint and non-adjacent and cover exactly the fibre indices
\* observed on that side; the three observations (A,1)-(B,10), (A,2)-(B,11),
\* (A,3)-(B,12) give 1-3, 10-12 and fiber_count 3.
C12_RangeCompaction ==
    Grouped =>
        /\ RangesCompact(ret.Lc) /\ CoveredBy(ret.Lc) = LeftObserved
        /\ RangesCompact(ret.Rc) /\ CoveredBy(ret.Rc) = RightObserved
        /\ arg = ThreeFibres =>
              /\ ret.Lc = << <<1, 3>> >>
              /\ ret.Rc = << <<10, 12>> >>
              /\ ret.cnt = 3

\* C12 witness: the three observations of the example were grouped.
C12_Witness == Grouped /\ arg = ThreeFibres /\ ret.Lc = << <<1, 3>> >>

Smaller(m, n) == IF m <= n THEN m ELSE n

\* C13: fiber_count is the number of distinct left fibre indices and the
\* number of distinct right fibre indices of the reported group, the smaller
\* of the two when they differ.
C13_CountBothSides ==
    Grouped =>
        ret.cnt = Smaller(Cardinality(LeftObserved), Cardinality(RightObserved))

\* C14: a line "A -- Splice -- B" and a line "B -- Splice -- A" fall into one
\* group: every line that names the two cables of the reported group, in
\* either order, has its fibre indices in the reported ranges.
C14_UnorderedKey ==
    Grouped =>
        \A i \in DOMAIN arg :
            (Paired(arg[i]) /\ Range(arg[i].pmids) = {ret.lp, ret.rp})
                => Range(arg[i].fnums) \subseteq CoveredBy(ret.Lc) \cup CoveredBy(ret.Rc)

(***************************************************************************)
(* Properties of _parse_section and build_fiber_trace.                     *)
(***************************************************************************)
\* the sections of the document that build_fiber_trace has processed
Processed == SubSeq(payload, 1, nsec)

RECURSIVE Flatten(_)
Flatten(ss) == IF ss = <<>> THEN <<>> ELSE ss[1].body \o Flatten(Tail(ss))

\* the lines of the processed sections of block b, in document order
LinesOfBlock(b) ==
    Flatten(SelectSeq(Processed,
                      LAMBDA sec : sec.locline = b.locline /\ sec.equip = b.equip))

\* the first value the length lines about cable p give for calculated_length
FirstCalculated(lines, p) ==
    LET given == SelectSeq(lines, LAMBDA ln :
                     ln.kind = "len" /\ ln.pmids[1] = p /\ ln.calc # NoLength)
    IN  IF given = <<>> THEN NoLength ELSE given[1].calc

\* the first value the length lines about cable p give for otdr_length
FirstOtdr(lines, p) ==
    LET given == SelectSeq(lines, LAMBDA ln :
                     ln.kind = "len" /\ ln.pmids[1] = p /\ ln.otdr # NoLength)
    IN  IF given = <<>> THEN NoLength ELSE given[1].otdr

\* C15: a length line only fills a field that is still null: for every cable
\* of every location block, calculated_length and otdr_length hold the first
\* value that the length lines about the cable gave, within a section and
\* across the sections merged into the block.
C15_NullFill ==
    pc = "tracing" =>
        \A i \in DOMAIN order :
            \A p \in DOMAIN order[i].lengths :
                /\ order[i].lengths[p][1] = FirstCalculated(LinesOfBlock(order[i]), p)
                /\ order[i].lengths[p][2] = FirstOtdr(LinesOfBlock(order[i]), p)

RECURSIVE BlocksOf(_, _)
BlocksOf(doc, blocks) ==
    IF doc = <<>> THEN blocks
    ELSE BlocksOf(Tail(doc), Aggregate(blocks, ParseSection(doc[1])))

\* C19: a section whose first line is no location header is skipped: the
\* location blocks are those of the document without such sections, so the
\* section gives no block and none of its lines shows in a block.
C19_HeaderFailureSkips ==
    pc = "tracing" =>
        order = BlocksOf(SelectSeq(Processed, LAMBDA sec : sec.matched), <<>>)

\* the (location line, equipment) key of a section
KeyOf(sec) == <<sec.locline, sec.equip>>

\* the sections that open a location block: their key is new in the document
Opening == { k \in DOMAIN payload : \A j \in 1..(k - 1) : KeyOf(payload[j]) # KeyOf(payload[k]) }

\* the location lines of the opening sections, in document order
OpeningLocations ==
    LET at == [k \in DOMAIN payload |-> [sec |-> payload[k], opens |-> k \in Opening]]
        sel == SelectSeq(at, LAMBDA r : r.opens)
    IN  [k \in DOMAIN sel |-> sel[k].sec.locline]

\* the location lines of the sheet, top to bottom
EmittedLocations ==
    LET sel == SelectSeq(ret.rows, LAMBDA r : r.item = "Equipment Location")
    IN  [k \in DOMAIN sel |-> sel[k].text]

\* build_fiber_trace returned for a document whose sections all have a header
TracedDocument ==
    /\ pc = "traced"
    /\ payload # <<>>
    /\ \A k \in DOMAIN payload : payload[k].matched

\* C18: location blocks are emitted in the order in which their sections
\* appear in the document, the A location is the location of the first
\* section and the Z location is the location of the last section.
C18_ZIsLastSection ==
    TracedDocument =>
        /\ EmittedLocations = OpeningLocations
        /\ ret.a_loc = payload[1].locline
        /\ ret.z_loc = payload[Len(payload)].locline

(***************************************************************************)
(* Properties of the text helpers.                                         *)
(***************************************************************************)
\* C16: each decoder is idempotent, decode(decode(x)) = decode(x), for
\* fiber_trace._decode, clean_json._normalize_tokens and
\* parse_device_sheet.clean_text.
C16_DecodeIdempotent ==
    pc \in {"_decode", "_normalize_tokens", "clean_text"} => ret.twice = ret.once

\* a line that holds nothing but a dot
DotOnly(ln) == Strip(ln) = <<".">>

\* C17: every section _split returns is non-empty, holds no blank line and
\* neither begins nor ends with a dot-only line.
C17_SectionShape ==
    pc = "split" =>
        \A i \in DOMAIN ret :
            /\ ret[i] # <<>>
            /\ \A k \in DOMAIN ret[i] : Strip(ret[i][k]) # <<>>
            /\ ~DotOnly(ret[i][1])
            /\ ~DotOnly(ret[i][Len(ret[i])])

(***************************************************************************)
(* Properties of _parse_segments_with_context.                             *)
(***************************************************************************)
\* the lines of the document of the given kind
LinesOfKind(kind) ==
    { <<i, k>> \in UNION { {i} \X DOMAIN arg[i] : i \in DOMAIN arg } :
        arg[i][k].kind = kind }

\* C20: a number that cannot be converted costs its field or its line only:
\* the parse never fails, and the document's cable records, one per CA line,
\* are all produced.
C20_CoercionFailureIsLocal ==
    /\ pc # "raised"
    /\ pc = "cleaned" => Len(ret.cables) = Cardinality(LinesOfKind("CA"))

(***************************************************************************)
(* C28: after _parse_json_for_order, for every PMID p and box b, b is in   *)
(* boxes_by_pmid[p] if and only if p has a sequence index in               *)
(* ca_order_by_box[b], also when a box header occurs more than once.       *)
(***************************************************************************)
C28_IndexesAgree ==
    pc = "indexed"
        => \A p \in PMIDs, b \in Boxes :
              b \in DictGet(boxes_by_pmid, p, {})
                  <=> p \in DOMAIN DictGet(ca_order_by_box, b, EmptyDict)

(***************************************************************************)
(* C26: for the same action and the same indexes _normalize_desc returns   *)
(* the same description whatever order the set of common boxes is iterated *)
(* in: every run of the call gives the description this run gave.          *)
(***************************************************************************)
C26_OrientationDeterministic ==
    pc = "normalized"
        => \A run \in NormalizeDescRuns(action, desc, ca_order_by_box,
                                        boxes_by_pmid, pair_orient) :
              run.out = out

\* a pair normalized without a location hint where _find_common_box may return
\* either of two boxes, the pair also sharing a box that orders it the other way
C26_Witness ==
    /\ pc = "normalized"
    /\ desc.match
    /\ Cardinality({ run.box : run \in NormalizeDescRuns(action, desc, ca_order_by_box,
                                     boxes_by_pmid, pair_orient) }) >= 2

(***************************************************************************)
(* C27: for an action that matches the pair pattern, the two (id, range)   *)
(* pairs of the output are the two (id, range) pairs of the input, kept or *)
(* swapped as a whole: no range moves to the other id, nothing is changed, *)
(* added or lost.                                                          *)
(***************************************************************************)
C27_OnlyPermutesEndpoints ==
    (pc = "normalized" /\ desc.match)
        => \/ /\ <<out.left, out.leftRange>> = <<desc.A, desc.Ar>>
              /\ <<out.right, out.rightRange>> = <<desc.B, desc.Br>>
           \/ /\ <<out.left, out.leftRange>> = <<desc.B, desc.Br>>
              /\ <<out.right, out.rightRange>> = <<desc.A, desc.Ar>>

\* a pair that came back swapped, its two ranges being different
C27_Witness ==
    /\ pc = "normalized"
    /\ desc.match
    /\ desc.Ar # desc.Br
    /\ desc.A # desc.B
    /\ out.left = desc.B
    /\ out.leftRange = desc.Br

(***************************************************************************)
(* C21: the engine never raises on input content: for non-null arguments,  *)
(* any Connections text and any action table, compute_fibre_actions        *)
(* returns a result.                                                       *)
(***************************************************************************)
C21_NeverRaises ==
    (pc = "computed" /\ csv.given) => result.raised = None

\* the peer hints of the cable attachments that name no parsed location
OrphanHints ==
    { ret.cables[i].to_node : i \in DOMAIN ret.cables } \
        ({None} \cup { ret.nodes[i].node_id : i \in DOMAIN ret.nodes })

(***************************************************************************)
(* C22: in the integrity report a peer hint that names no known location   *)
(* is reported once as an orphan, however many cable attachments carry it: *)
(* orphans_to is the number of such hints.                                 *)
(***************************************************************************)
C22_OrphanReportedOnce ==
    pc = "reported" => ret.integrity.orphans_to = Cardinality(OrphanHints)

\* the PMIDs of the length lines of the document
MeasuredPMIDs ==
    UNION { { arg[i][j].pmid : j \in { k \in DOMAIN arg[i] : arg[i][k].kind = "len" } } :
              i \in DOMAIN arg }

(***************************************************************************)
(* C23: a PMID is counted as missing its length exactly when it is on a    *)
(* cable attachment and the document has no length line for it; a PMID     *)
(* attached at several boxes with one length line is not counted.          *)
(***************************************************************************)
C23_MissingLength ==
    pc = "reported"
        => ret.integrity.cables_missing_length =
               Cardinality({ ret.cables[i].pmid : i \in DOMAIN ret.cables }
                               \ MeasuredPMIDs)

\* the rows insert_actions adds carry one of the two action labels
IsActionRow(r) == r.item \in {"Splice Required", "Break Splice"}

\* the link that belongs to a row: the map of the location an Equipment
\* Location row names, nothing for any other row
LinkOf(r) ==
    IF r.item = "Equipment Location" /\ r.text \in DOMAIN LatLon
    THEN GmapUrl(LatLon[r.text][1], LatLon[r.text][2])
    ELSE NoUrl

(***************************************************************************)
(* C29: after a call of insert_actions the link list has one entry per     *)
(* row, the original rows are all there with the same content in the same  *)
(* order, each map URL is at the index of its own Equipment Location row,  *)
(* and the sheet has grown by stats["inserted"] rows.                      *)
(***************************************************************************)
C29_TableAndLinksAligned ==
    pc = "inserted"
        => /\ Len(ret.gmaps) = Len(ret.rows)
           /\ SelectSeq(ret.rows, LAMBDA r : ~IsActionRow(r)) = BuildFiberTrace(order).rows
           /\ \A i \in DOMAIN ret.rows : ret.gmaps[i] = LinkOf(ret.rows[i])
           /\ Len(ret.rows) = Len(BuildFiberTrace(order).rows) + ret.stats.inserted

\* rows were inserted above the Equipment Location row of a later block that
\* has a map
C29_Witness ==
    /\ pc = "inserted"
    /\ ret.stats.inserted >= 1
    /\ \E i, j \in DOMAIN ret.rows :
          /\ i < j
          /\ IsActionRow(ret.rows[i])
          /\ ret.rows[j].item = "Equipment Location"
          /\ ret.gmaps[j] # NoUrl

(***************************************************************************)
(* Properties of the search for the Connections texts.                     *)
(***************************************************************************)
\* the texts a JSON value holds under a key named Connections, at any depth
RECURSIVE TextsUnderKey(_)
TextsUnderKey(x) ==
    IF x.t = "str" THEN {}
    ELSE IF x.t = "list" THEN UNION { TextsUnderKey(x.items[i]) : i \in DOMAIN x.items }
    ELSE UNION { IF x.items[i].k = "Connections" /\ x.items[i].v.t = "str"
                 THEN {x.items[i].v.s}
                 ELSE TextsUnderKey(x.items[i].v) : i \in DOMAIN x.items }

\* the inner list of the report, document["Report: Splice Details"][0][""]
InnerList == arg.items[1].v.items[1].items[1].v.items

\* the bare string elements of the inner list
BareTexts == { InnerList[i].s : i \in { j \in DOMAIN InnerList : InnerList[j].t = "str" } }

\* the text opens with a location header
HasHeader(text) == "Address:" \in Range(text)

\* the connection texts of the document, in either shape
StoredTexts == { b \in TextsUnderKey(arg) \cup BareTexts : HasHeader(b) }

(***************************************************************************)
(* C24: gather_connections returns the connection text whether it is the   *)
(* value of a key Connections at any depth or a bare string element of the *)
(* Splice Details list; for both shapes the result is not empty and its    *)
(* first element holds the location header.                                *)
(***************************************************************************)
C24_BothShapesFound ==
    pc = "gather_connections"
        => /\ StoredTexts \subseteq Range(ret)
           /\ (StoredTexts # {} /\ Blank \notin TextsUnderKey(arg))
                  => (ret # <<>> /\ HasHeader(ret[1]))

\* the elements of the inner list that are a dict with the key Connections
DirectItems == SelectSeq(InnerList, LAMBDA x : x.t = "dict" /\ x.items[1].k = "Connections")

\* the texts under the key Connections in the elements of the inner list, in
\* document order
KeyTextsInOrder == [i \in DOMAIN DirectItems |-> DirectItems[i].items[1].v.s]

\* the first index of a text in a list
FirstIndex(seq, b) == CHOOSE i \in DOMAIN seq : seq[i] = b /\ \A j \in 1..(i - 1) : seq[j] # b

(***************************************************************************)
(* C25: the list of connection blobs handed to the parsers holds each      *)
(* distinct text once, in first-seen order, for build_fiber_trace          *)
(* (_get_connection_blobs) and for run_clean (_find_connections_recursive).*)
(***************************************************************************)
C25_BlobsDeduplicated ==
    pc \in {"_get_connection_blobs", "_find_connections_recursive"}
        => /\ \A i, j \in DOMAIN ret : ret[i] = ret[j] => i = j
           /\ Range(ret) \subseteq TextsUnderKey(arg)
           /\ Range(ret) \subseteq Range(KeyTextsInOrder)
                 => \A i, j \in DOMAIN ret :
                       i < j => FirstIndex(KeyTextsInOrder, ret[i])
                                    < FirstIndex(KeyTextsInOrder, ret[j])
(***************************************************************************)
(* Properties of the launcher.                                             *)
(***************************************************************************)
\* the Streamlit process this launcher started is still alive
ChildAlive == proc # None /\ child \in {"running", "signalled"}

(***************************************************************************)
(* C30: whenever launcher.main ends (the window is closed, the window loop *)
(* raises, or the server does not answer within the startup timeout), a    *)
(* Streamlit child this launcher started is no longer running and the      *)
(* single-instance lock socket is released.                                *)
(***************************************************************************)
C30_LauncherCleanup ==
    pc = "ended" => ~ChildAlive /\ lock_socket # "listening"

=============================================================================
